---- MODULE Spec2Model ----
(***************************************************************************)
(* Model of the texture discovery core of radium-textures: the MO2 profile *)
(* (src/mo2/profile.rs), the virtual file system (src/mo2/vfs.rs) and the  *)
(* texture discovery service (src/database/discovery.rs).                  *)
(*                                                                         *)
(* Strings are sequences of one-character strings, so that lower-casing,   *)
(* Unicode composition, separator replacement, prefix and suffix tests are *)
(* computed as the code computes them.  Three characters stand for the     *)
(* Unicode cases the code meets: "acute" is the combining acute accent     *)
(* U+0301, "e_acute" is the precomposed U+00E9 and "E_acute" is U+00C9.    *)
(***************************************************************************)
EXTENDS Integers, Sequences, FiniteSets, TLC

VARIABLES
    modlist_txt,          \* profile/modlist.txt: the sequence of its lines
    loadorder_txt,        \* profile/loadorder.txt: its lines, or NoFile
    archives_txt,         \* profile/archives.txt: its lines, or NoFile
    disk,                 \* directory |-> set of relative file paths in its tree
    bsa_content,          \* archive path |-> set of internal entry paths
    pc,                   \* position of the program in its pipeline
    mods,                 \* Profile.mods
    plugin_order,         \* Profile.plugin_order
    additional_archives,  \* Profile.additional_archives
    file_map,             \* VirtualFileSystem.file_map
    textures,             \* the catalog: key |-> TextureRecord
    bsa_files,            \* the list get_plugin_bsas returned
    stats,                \* the counters of discover_from_bsas
    lookup,               \* the last get_file query and its result
    norm_in,              \* the two paths handed to normalize_path
    norm_out,             \* the two keys it returned
    dds_in,               \* the stream handed to parse_dds_header
    dds_out,              \* the header or the error it returned
    class_in,             \* the path handed to classify_texture
    class_out,            \* the Option<String> it returned
    header_counts,        \* the counters parsed and failed of parse_dds_headers
    glob_in,              \* the text and the pattern handed to matches_wildcard
    glob_out,             \* the bool it returned
    preset_in,            \* the arguments of get_target_resolution
    preset_out            \* the Option<(u32, u32)> it returned

\* the arguments and results of the functions called on their own
calls == <<glob_in, glob_out, preset_in, preset_out>>

vars == <<modlist_txt, loadorder_txt, archives_txt, disk, bsa_content, pc, mods,
          plugin_order, additional_archives, file_map, textures, bsa_files,
          stats, lookup, norm_in, norm_out, dds_in, dds_out, class_in, class_out,
          header_counts, glob_in, glob_out, preset_in, preset_out>>

world == <<modlist_txt, loadorder_txt, archives_txt, disk, bsa_content>>

\* a text file: its lines, or a file that does not exist
TextFile(lines) == [exists |-> TRUE, lines |-> lines]
NoFile == [exists |-> FALSE, lines |-> <<>>]
None == "None"

-----------------------------------------------------------------------------
(* Bounds of the model.                                                    *)

\* longest modlist.txt, in lines, of the manifest specification
MaxLines == 3
\* longest path, in characters, handed to normalize_path on its own
MaxLen == 3
\* longest file stem, in characters, handed to classify_texture on its own
MaxStem == 4
\* longest text and longest pattern, in characters, handed to matches_wildcard
MaxGlob == 4
\* most files in one directory tree of the namespace specification
MaxTreeFiles == 2
\* longest modlist.txt, in lines, of the namespace specification
MaxMods == 2
\* most archive files on disk in the catalog specification
MaxArchives == 2

-----------------------------------------------------------------------------
(* Characters and strings.                                                 *)

\* char::to_lowercase on the characters of the model
LowerChar(c) ==
    CASE c = "A" -> "a" [] c = "B" -> "b" [] c = "D" -> "d" [] c = "E" -> "e"
      [] c = "M" -> "m" [] c = "N" -> "n"
      [] c = "P" -> "p" [] c = "Q" -> "q" [] c = "R" -> "r" [] c = "S" -> "s"
      [] c = "T" -> "t" [] c = "U" -> "u" [] c = "X" -> "x"
      [] c = "E_acute" -> "e_acute"
      [] OTHER -> c

\* str::to_lowercase
RECURSIVE to_lowercase(_)
to_lowercase(s) ==
    IF s = <<>> THEN <<>> ELSE <<LowerChar(Head(s))>> \o to_lowercase(Tail(s))

\* canonical composition of a base character and the combining acute accent
Compose(c) ==
    CASE c = "e" -> "e_acute" [] c = "E" -> "E_acute" [] OTHER -> None

\* UnicodeNormalization::nfc: compose every base character with the
\* combining accent that follows it
RECURSIVE nfc(_)
nfc(s) ==
    IF Len(s) < 2 THEN s
    ELSE IF s[2] = "acute" /\ Compose(s[1]) # None
         THEN <<Compose(s[1])>> \o nfc(SubSeq(s, 3, Len(s)))
         ELSE <<s[1]>> \o nfc(Tail(s))

ReplaceChar(c) == IF c = "\\" THEN "/" ELSE c

\* str::replace('\\', "/")
RECURSIVE replace_backslash(_)
replace_backslash(s) ==
    IF s = <<>> THEN <<>> ELSE <<ReplaceChar(Head(s))>> \o replace_backslash(Tail(s))

starts_with(s, p) == Len(p) <= Len(s) /\ SubSeq(s, 1, Len(p)) = p
ends_with(s, p) == Len(p) <= Len(s) /\ SubSeq(s, Len(s) - Len(p) + 1, Len(s)) = p

IsSpace(c) == c = " "

\* str::trim
RECURSIVE trim_start(_)
trim_start(s) ==
    IF s # <<>> /\ IsSpace(Head(s)) THEN trim_start(Tail(s)) ELSE s
RECURSIVE trim_end(_)
trim_end(s) ==
    IF s # <<>> /\ IsSpace(s[Len(s)]) THEN trim_end(SubSeq(s, 1, Len(s) - 1)) ELSE s
trim(s) == trim_end(trim_start(s))

\* all sequences over S of length at most n
RECURSIVE SeqsUpTo(_, _)
SeqsUpTo(S, n) ==
    IF n = 0 THEN {<<>>}
    ELSE LET shorter == SeqsUpTo(S, n - 1)
         IN  shorter \cup {Append(s, x) : s \in {t \in shorter : Len(t) = n - 1}, x \in S}

\* all orders in which the elements of S can be enumerated
RECURSIVE Perms(_)
Perms(S) ==
    IF S = {} THEN {<<>>}
    ELSE UNION {{<<x>> \o p : p \in Perms(S \ {x})} : x \in S}

-----------------------------------------------------------------------------
(* Metadata extractor: dds::parse_dds_header.                              *)

DDS_MAGIC == 542327876
DDPF_FOURCC == 4
FOURCC_DXT1 == 827611204
FOURCC_DXT2 == 844388420
FOURCC_DXT3 == 861165636
FOURCC_DXT4 == 877942852
FOURCC_DXT5 == 894720068
FOURCC_DX10 == 808540228
FOURCC_BC4U == 1429488450
FOURCC_BC4S == 1395934018
FOURCC_BC5U == 1429553986
FOURCC_BC5S == 1395999554
FOURCC_ATI1 == 826889281
FOURCC_ATI2 == 843666497
DXGI_FORMAT_BC1_UNORM == 71
DXGI_FORMAT_BC1_UNORM_SRGB == 72
DXGI_FORMAT_BC2_UNORM == 74
DXGI_FORMAT_BC2_UNORM_SRGB == 75
DXGI_FORMAT_BC3_UNORM == 77
DXGI_FORMAT_BC3_UNORM_SRGB == 78
DXGI_FORMAT_BC4_UNORM == 80
DXGI_FORMAT_BC4_SNORM == 81
DXGI_FORMAT_BC5_UNORM == 83
DXGI_FORMAT_BC5_SNORM == 84
DXGI_FORMAT_BC6H_UF16 == 95
DXGI_FORMAT_BC6H_SF16 == 96
DXGI_FORMAT_BC7_UNORM == 98
DXGI_FORMAT_BC7_UNORM_SRGB == 99

\* the first bytes of a stream: how many bytes the stream holds, the
\* little-endian words at offsets 0 (magic), 12 (dwHeight), 16 (dwWidth),
\* 80 (pixel format dwFlags) and 84 (dwFourCC), and those of the four bytes
\* from offset 128 that the stream holds
Bytes(len, magic, height, width, pixel_format_flags, fourcc, dx10) ==
    [len |-> len, magic |-> magic, height |-> height, width |-> width,
     pixel_format_flags |-> pixel_format_flags, fourcc |-> fourcc,
     tail |-> IF len <= 128 THEN <<>>
              ELSE IF len >= 132 THEN dx10
              ELSE SubSeq(dx10, 1, len - 128)]

\* u32::to_le_bytes
to_le_bytes(n) ==
    <<n % 256, (n \div 256) % 256, (n \div 65536) % 256, (n \div 16777216) % 256>>

\* read_u32::<LittleEndian>
read_u32(b) == b[1] + 256 * b[2] + 65536 * b[3] + 16777216 * b[4]

\* the character of a byte of a tag: the letters, digits and space of
\* ASCII; any other byte is written <n>
Utf8Char(b) ==
    IF b \in 65..90
    THEN <<"A", "B", "C", "D", "E", "F", "G", "H", "I", "J", "K", "L", "M", "N",
           "O", "P", "Q", "R", "S", "T", "U", "V", "W", "X", "Y", "Z">>[b - 64]
    ELSE IF b \in 48..57
    THEN <<"0", "1", "2", "3", "4", "5", "6", "7", "8", "9">>[b - 47]
    ELSE IF b = 32 THEN " "
    ELSE "<" \o ToString(b) \o ">"

\* fourcc_to_string
fourcc_to_string(fourcc) ==
    LET bytes == to_le_bytes(fourcc)
    IN  Utf8Char(bytes[1]) \o Utf8Char(bytes[2]) \o Utf8Char(bytes[3])
            \o Utf8Char(bytes[4])

\* an extended table that tells the sRGB codes from the linear ones
parse_dx10_format_srgb_apart(dx10_header) ==
    IF Len(dx10_header) < 4 THEN "UNKNOWN"
    ELSE LET dxgi_format == read_u32(dx10_header)
         IN  IF dxgi_format = DXGI_FORMAT_BC1_UNORM THEN "BC1"
             ELSE IF dxgi_format = DXGI_FORMAT_BC2_UNORM THEN "BC2"
             ELSE IF dxgi_format = DXGI_FORMAT_BC3_UNORM THEN "BC3"
             ELSE IF dxgi_format \in {DXGI_FORMAT_BC4_UNORM, DXGI_FORMAT_BC4_SNORM}
             THEN "BC4"
             ELSE IF dxgi_format \in {DXGI_FORMAT_BC5_UNORM, DXGI_FORMAT_BC5_SNORM}
             THEN "BC5"
             ELSE IF dxgi_format \in {DXGI_FORMAT_BC6H_UF16, DXGI_FORMAT_BC6H_SF16}
             THEN "BC6H"
             ELSE IF dxgi_format = DXGI_FORMAT_BC7_UNORM THEN "BC7"
             ELSE "DXGI_" \o ToString(dxgi_format)

\* parse_dx10_format
parse_dx10_format(dx10_header) ==
    IF Len(dx10_header) < 4 THEN "UNKNOWN"
    ELSE LET dxgi_format == read_u32(dx10_header)
         IN  IF dxgi_format \in {DXGI_FORMAT_BC1_UNORM, DXGI_FORMAT_BC1_UNORM_SRGB}
             THEN "BC1"
             ELSE IF dxgi_format \in {DXGI_FORMAT_BC2_UNORM, DXGI_FORMAT_BC2_UNORM_SRGB}
             THEN "BC2"
             ELSE IF dxgi_format \in {DXGI_FORMAT_BC3_UNORM, DXGI_FORMAT_BC3_UNORM_SRGB}
             THEN "BC3"
             ELSE IF dxgi_format \in {DXGI_FORMAT_BC4_UNORM, DXGI_FORMAT_BC4_SNORM}
             THEN "BC4"
             ELSE IF dxgi_format \in {DXGI_FORMAT_BC5_UNORM, DXGI_FORMAT_BC5_SNORM}
             THEN "BC5"
             ELSE IF dxgi_format \in {DXGI_FORMAT_BC6H_UF16, DXGI_FORMAT_BC6H_SF16}
             THEN "BC6H"
             ELSE IF dxgi_format \in {DXGI_FORMAT_BC7_UNORM, DXGI_FORMAT_BC7_UNORM_SRGB}
             THEN "BC7"
             ELSE "DXGI_" \o ToString(dxgi_format)

\* the tag table alone
fourcc_format(fourcc, dx10_header) ==
    IF fourcc = FOURCC_DXT1 THEN "BC1"
    ELSE IF fourcc \in {FOURCC_DXT2, FOURCC_DXT3} THEN "BC2"
    ELSE IF fourcc \in {FOURCC_DXT4, FOURCC_DXT5} THEN "BC3"
    ELSE IF fourcc \in {FOURCC_BC4U, FOURCC_BC4S, FOURCC_ATI1} THEN "BC4"
    ELSE IF fourcc \in {FOURCC_BC5U, FOURCC_BC5S, FOURCC_ATI2} THEN "BC5"
    ELSE IF fourcc = FOURCC_DX10 THEN parse_dx10_format(dx10_header)
    ELSE "FourCC_" \o fourcc_to_string(fourcc)

\* a format that reads the tag whether or not the flag is set
header_format_ignoring_flag(pixel_format_flags, fourcc, dx10_header) ==
    fourcc_format(fourcc, dx10_header)

\* parse_dds_header: let format = if (pixel_format_flags & DDPF_FOURCC) != 0
header_format(pixel_format_flags, fourcc, dx10_header) ==
    IF (pixel_format_flags \div DDPF_FOURCC) % 2 # 0
    THEN fourcc_format(fourcc, dx10_header)
    ELSE "UNCOMPRESSED"

\* header_buffer[128..]: the buffer is 148 zero bytes before the read
header_buffer_tail(stream) ==
    [i \in 1..4 |-> IF i <= Len(stream.tail) THEN stream.tail[i] ELSE 0]

DdsError(message) ==
    [ok |-> FALSE, error |-> message, width |-> 0, height |-> 0, format |-> ""]

\* no call of the extractor yet
NoHeader == DdsError("")

\* let mut parsed = 0; let mut failed = 0;
NoCounts == [parsed |-> 0, failed |-> 0]

\* no function has been called on its own
NoCalls ==
    /\ glob_in = [text |-> <<>>, pattern |-> <<>>]
    /\ glob_out = FALSE
    /\ preset_in = [preset |-> "", texture_type |-> "", current_width |-> 0,
                    current_height |-> 0]
    /\ preset_out = <<>>

\* an extractor that looks at the magic before it looks at the size
parse_dds_header_magic_first(stream) ==
    IF stream.magic # DDS_MAGIC THEN DdsError("Invalid DDS magic number")
    ELSE IF stream.len < 128 THEN DdsError("File too small to be valid DDS")
    ELSE [ok |-> TRUE, error |-> "", width |-> stream.width, height |-> stream.height,
          format |-> header_format(stream.pixel_format_flags, stream.fourcc,
                                   header_buffer_tail(stream))]

\* dds::parse_dds_header
parse_dds_header(stream) ==
    LET bytes_read == IF stream.len < 148 THEN stream.len ELSE 148
    IN  IF bytes_read < 128 THEN DdsError("File too small to be valid DDS")
        ELSE IF stream.magic # DDS_MAGIC THEN DdsError("Invalid DDS magic number")
        ELSE [ok |-> TRUE, error |-> "", width |-> stream.width,
              height |-> stream.height,
              format |-> header_format(stream.pixel_format_flags, stream.fourcc,
                                       header_buffer_tail(stream))]

\* a DDS file with the tagged-codec flag, and bytes that are no DDS file
Dds(len, width, height, fourcc, dxgi_format) ==
    Bytes(len, DDS_MAGIC, height, width, DDPF_FOURCC, fourcc, to_le_bytes(dxgi_format))
NotDds(len) == Bytes(len, 0, 0, 0, 0, 0, to_le_bytes(0))

-----------------------------------------------------------------------------
(* Path Key Normalizer: VirtualFileSystem::normalize_path.                 *)

normalize_path_no_replace(path) == nfc(to_lowercase(path))

normalize_path_no_lowercase(path) == replace_backslash(nfc(path))

normalize_path(path) == replace_backslash(nfc(to_lowercase(path)))

-----------------------------------------------------------------------------
(* Names on disk.                                                          *)

DataDir == << <<"g", "a", "m", "e">>, <<"D", "a", "t", "a">> >>
ModsDir == <<"m", "o", "d", "s">>

\* Path::join of the mods directory and a mod name
ModPath(name) == <<ModsDir, name>>

\* Path::join of a directory and a relative path
Join(dir, rel) == <<dir, rel>>

\* Path::exists for a directory and for a file in a directory tree
DirExists(dir) == dir \in DOMAIN disk
FileExists(dir, rel) == DirExists(dir) /\ rel \in disk[dir]

EmptyMap == [k \in {} |-> None]

Put(m, k, v) == [x \in (DOMAIN m) \cup {k} |-> IF x = k THEN v ELSE m[x]]

-----------------------------------------------------------------------------
(* Source Registry: Profile::load and its parsers.                         *)

Enabled == "Enabled"
Disabled == "Disabled"

\* the match on the first character of a trimmed line in parse_modlist:
\* the state of the mod the line declares, or Skip for a line that is empty
\* or has another first character
Skip == "Skip"

LineState(raw) ==
    LET line == trim(raw)
    IN  IF line = <<>> THEN Skip
        ELSE IF Head(line) = "+" THEN Enabled
        ELSE IF Head(line) \in {"-", "*"} THEN Disabled
        ELSE Skip

\* the Mod parse_modlist pushes for a line that is not skipped
ModOfLine(raw, priority) ==
    [name |-> Tail(trim(raw)), path |-> ModPath(Tail(trim(raw))),
     priority |-> priority, state |-> LineState(raw)]

\* a parser that gives up at the first line with an unknown prefix
RECURSIVE parse_modlist_until_invalid(_, _)
parse_modlist_until_invalid(lines, priority) ==
    IF lines = <<>> THEN <<>>
    ELSE IF LineState(Head(lines)) = Skip
         THEN IF trim(Head(lines)) = <<>>
              THEN parse_modlist_until_invalid(Tail(lines), priority)
              ELSE <<>>
         ELSE <<ModOfLine(Head(lines), priority)>>
                  \o parse_modlist_until_invalid(Tail(lines), priority + 1)

\* the loop of Profile::parse_modlist
RECURSIVE parse_modlist_from(_, _)
parse_modlist_from(lines, priority) ==
    IF lines = <<>> THEN <<>>
    ELSE IF LineState(Head(lines)) = Skip
         THEN parse_modlist_from(Tail(lines), priority)
         ELSE <<ModOfLine(Head(lines), priority)>>
                  \o parse_modlist_from(Tail(lines), priority + 1)

\* a parser that gives a rank slot to every line, skipped or not
RECURSIVE parse_modlist_by_line_number(_, _)
parse_modlist_by_line_number(lines, priority) ==
    IF lines = <<>> THEN <<>>
    ELSE IF LineState(Head(lines)) = Skip
         THEN parse_modlist_by_line_number(Tail(lines), priority + 1)
         ELSE <<ModOfLine(Head(lines), priority)>>
                  \o parse_modlist_by_line_number(Tail(lines), priority + 1)

parse_modlist_line_numbers(lines) == parse_modlist_by_line_number(lines, 0)

\* Profile::parse_modlist
parse_modlist(lines) == parse_modlist_from(lines, 0)

RECURSIVE parse_loadorder(_)
parse_loadorder(lines) ==
    IF lines = <<>> THEN <<>>
    ELSE LET line == trim(Head(lines))
             rest == parse_loadorder(Tail(lines))
         IN  IF line = <<>> \/ Head(line) = "#" THEN rest
             ELSE IF Head(line) = "*" THEN <<Tail(line)>> \o rest
             ELSE <<line>> \o rest

RECURSIVE parse_archives(_)
parse_archives(lines) ==
    IF lines = <<>> THEN <<>>
    ELSE LET line == trim(Head(lines))
             rest == parse_archives(Tail(lines))
         IN  IF line = <<>> THEN rest ELSE <<line>> \o rest

\* a load that requires the three manifests
LoadRequiringEveryManifest ==
    /\ pc = "start"
    /\ IF ~modlist_txt.exists \/ ~loadorder_txt.exists \/ ~archives_txt.exists
       THEN /\ pc' = "load_failed"
            /\ UNCHANGED <<mods, plugin_order, additional_archives>>
       ELSE /\ pc' = "loaded"
            /\ mods' = parse_modlist(modlist_txt.lines)
            /\ plugin_order' = parse_loadorder(loadorder_txt.lines)
            /\ additional_archives' = parse_archives(archives_txt.lines)
    /\ UNCHANGED <<world, file_map, textures, bsa_files, stats, lookup, norm_in, norm_out,
                   dds_in, dds_out, class_in, class_out, header_counts, calls>>

\* Profile::load
Load ==
    /\ pc = "start"
    /\ IF ~modlist_txt.exists
       THEN /\ pc' = "load_failed"
            /\ UNCHANGED <<mods, plugin_order, additional_archives>>
       ELSE /\ pc' = "loaded"
            /\ mods' = parse_modlist(modlist_txt.lines)
            /\ plugin_order' =
                   IF loadorder_txt.exists THEN parse_loadorder(loadorder_txt.lines) ELSE <<>>
            /\ additional_archives' =
                   IF archives_txt.exists THEN parse_archives(archives_txt.lines) ELSE <<>>
    /\ UNCHANGED <<world, file_map, textures, bsa_files, stats, lookup, norm_in, norm_out,
                   dds_in, dds_out, class_in, class_out, header_counts, calls>>

\* a filter that keeps every mod, whatever its state
FilterEveryState(ms) == ms

\* Profile::enabled_mods
RECURSIVE FilterEnabled(_)
FilterEnabled(ms) ==
    IF ms = <<>> THEN <<>>
    ELSE IF Head(ms).state = Enabled
         THEN <<Head(ms)>> \o FilterEnabled(Tail(ms))
         ELSE FilterEnabled(Tail(ms))

enabled_mods == FilterEnabled(mods)

\* Iterator::rev
rev(s) == [i \in 1..Len(s) |-> s[Len(s) - i + 1]]

\* Profile::enabled_mods_reverse
enabled_mods_reverse == FilterEnabled(rev(mods))

-----------------------------------------------------------------------------
(* The names and paths the specifications put on disk.                     *)

ModA == <<"A">>
ModB == <<"B">>

TexturesX == <<"t", "e", "x", "t", "u", "r", "e", "s", "/", "x", ".", "d", "d", "s">>
TexturesXWin == <<"T", "e", "x", "t", "u", "r", "e", "s", "\\", "X", ".", "D", "D", "S">>
TexturesXUpper == <<"T", "E", "X", "T", "U", "R", "E", "S", "/", "X", ".", "D", "D", "S">>
TexturesEDecomposed ==
    <<"t", "e", "x", "t", "u", "r", "e", "s", "/", "e", "acute", ".", "d", "d", "s">>

Textures2X == <<"t", "e", "x", "t", "u", "r", "e", "s", "2", "\\", "x", ".", "d", "d", "s">>
MeshesX == <<"m", "e", "s", "h", "e", "s", "\\", "x", ".", "n", "i", "f">>

TexturesXN ==
    <<"t", "e", "x", "t", "u", "r", "e", "s", "\\", "x", "_", "n", ".", "d", "d", "s">>
TexturesXS ==
    <<"t", "e", "x", "t", "u", "r", "e", "s", "\\", "x", "_", "s", ".", "d", "d", "s">>
TexturesXM ==
    <<"t", "e", "x", "t", "u", "r", "e", "s", "\\", "x", "_", "m", ".", "d", "d", "s">>

PluginP == <<"P", ".", "e", "s", "p">>
BsaP == <<"P", ".", "b", "s", "a">>
BsaPTextures ==
    <<"P", " ", "-", " ", "T", "e", "x", "t", "u", "r", "e", "s", ".", "b", "s", "a">>

\* normalize_path of the paths above, computed once
NormalizedKeys ==
    [rel \in {TexturesX, TexturesXWin, TexturesXUpper, TexturesEDecomposed,
              Textures2X, MeshesX, TexturesXN, TexturesXS, TexturesXM, PluginP, BsaP,
              BsaPTextures}
        |-> normalize_path(rel)]

\* normalize_path(rel)
KeyOf(rel) ==
    IF rel \in DOMAIN NormalizedKeys THEN NormalizedKeys[rel] ELSE normalize_path(rel)

-----------------------------------------------------------------------------
(* Virtual Namespace Builder: VirtualFileSystem.                           *)

\* FileSource::Vanilla and FileSource::Mod
Vanilla(path) ==
    [kind |-> "Vanilla", mod_name |-> <<>>, mod_priority |-> 0, file_path |-> path]

ModSource(mod_name, mod_priority, path) ==
    [kind |-> "Mod", mod_name |-> mod_name, mod_priority |-> mod_priority,
     file_path |-> path]

NoSource == [kind |-> "None", mod_name |-> <<>>, mod_priority |-> 0, file_path |-> <<>>]

\* FileSource::priority
priority_of(source) == IF source.kind = "Mod" THEN source.mod_priority ELSE 0

\* the files WalkDir finds under a directory
TreeFiles(dir) == IF DirExists(dir) THEN disk[dir] ELSE {}

\* index_vanilla_files, the walk returning the files in the order `walk`
RECURSIVE index_vanilla_files(_, _)
index_vanilla_files(fm, walk) ==
    IF walk = <<>> THEN fm
    ELSE index_vanilla_files(
             Put(fm, KeyOf(Head(walk)), Vanilla(Join(DataDir, Head(walk)))),
             Tail(walk))

\* the entry(...).and_modify(...).or_insert_with(...) of index_mod_files
\* with an unconditional overwrite
InsertModFileAlways(fm, mod_entry, rel) ==
    Put(fm, KeyOf(rel),
        ModSource(mod_entry.name, mod_entry.priority, Join(mod_entry.path, rel)))

\* one with the comparison turned round: a present entry of lower priority
\* is kept
InsertModFileLowestWins(fm, mod_entry, rel) ==
    LET virtual_path == KeyOf(rel)
        new == ModSource(mod_entry.name, mod_entry.priority, Join(mod_entry.path, rel))
    IN  IF virtual_path \in DOMAIN fm
        THEN IF mod_entry.priority < priority_of(fm[virtual_path])
             THEN Put(fm, virtual_path, new)
             ELSE fm
        ELSE Put(fm, virtual_path, new)

\* the entry(...).and_modify(...).or_insert_with(...) of index_mod_files
InsertModFile(fm, mod_entry, rel) ==
    LET virtual_path == KeyOf(rel)
        new == ModSource(mod_entry.name, mod_entry.priority, Join(mod_entry.path, rel))
    IN  IF virtual_path \in DOMAIN fm
        THEN IF mod_entry.priority > priority_of(fm[virtual_path])
             THEN Put(fm, virtual_path, new)
             ELSE fm
        ELSE Put(fm, virtual_path, new)

\* index_mod_files, the walk returning the files in the order `walk`
RECURSIVE index_mod_files(_, _, _)
index_mod_files(fm, mod_entry, walk) ==
    IF walk = <<>> THEN fm
    ELSE index_mod_files(InsertModFile(fm, mod_entry, Head(walk)), mod_entry, Tail(walk))

\* the loop of build_file_map over the enabled mods, walks[i] being the
\* order in which the tree of the i-th enabled mod is walked
RECURSIVE index_enabled_mods(_, _, _)
index_enabled_mods(fm, ms, walks) ==
    IF ms = <<>> THEN fm
    ELSE index_enabled_mods(index_mod_files(fm, Head(ms), Head(walks)),
                            Tail(ms), Tail(walks))

\* build_file_map
build_file_map(vanilla_walk, mod_walks) ==
    index_enabled_mods(index_vanilla_files(EmptyMap, vanilla_walk),
                       enabled_mods, mod_walks)

\* the orders the directory walks of the trees of `ms` can take
RECURSIVE ModWalks(_)
ModWalks(ms) ==
    IF ms = <<>> THEN {<<>>}
    ELSE {<<w>> \o rest : w \in Perms(TreeFiles(Head(ms).path)),
                          rest \in ModWalks(Tail(ms))}

\* a build that fails when the game Data directory or the directory of an
\* enabled mod does not exist
BuildAbortingOnMissingRoot ==
    /\ pc \in {"loaded", "built"}
    /\ IF DirExists(DataDir)
          /\ \A i \in 1..Len(enabled_mods) : DirExists(enabled_mods[i].path)
       THEN /\ \E vanilla_walk \in Perms(TreeFiles(DataDir)) :
               \E mod_walks \in ModWalks(enabled_mods) :
                   file_map' = build_file_map(vanilla_walk, mod_walks)
            /\ pc' = "built"
       ELSE /\ pc' = "build_failed"
            /\ UNCHANGED file_map
    /\ UNCHANGED <<world, mods, plugin_order, additional_archives, textures,
                   bsa_files, stats, lookup, norm_in, norm_out,
                   dds_in, dds_out, class_in, class_out, header_counts, calls>>

\* VirtualFileSystem::new: the map is built from empty, each tree walked in
\* the order the file system returns
Build ==
    /\ pc \in {"loaded", "built"}
    /\ \E vanilla_walk \in Perms(TreeFiles(DataDir)) :
       \E mod_walks \in ModWalks(enabled_mods) :
           file_map' = build_file_map(vanilla_walk, mod_walks)
    /\ pc' = "built"
    /\ UNCHANGED <<world, mods, plugin_order, additional_archives, textures,
                   bsa_files, stats, lookup, norm_in, norm_out,
                   dds_in, dds_out, class_in, class_out, header_counts, calls>>

\* get_file with the key computed by normalize_path
get_file_normalized(fm, virtual_path) ==
    LET normalized == KeyOf(virtual_path)
    IN  IF normalized \in DOMAIN fm
        THEN [found |-> TRUE, source |-> fm[normalized]]
        ELSE [found |-> FALSE, source |-> NoSource]

\* VirtualFileSystem::get_file
get_file(fm, virtual_path) ==
    LET normalized == nfc(to_lowercase(virtual_path))
    IN  IF normalized \in DOMAIN fm
        THEN [found |-> TRUE, source |-> fm[normalized]]
        ELSE [found |-> FALSE, source |-> NoSource]

\* "Vanilla".to_string(): the name given to the game Data directory
VanillaName == <<"V", "a", "n", "i", "l", "l", "a">>

\* the element get_file_layers pushes for a source
Layer(source) ==
    IF source.kind = "Vanilla"
    THEN [name |-> VanillaName, priority |-> 0, path |-> source.file_path]
    ELSE [name |-> source.mod_name, priority |-> source.mod_priority,
          path |-> source.file_path]

\* the loop of get_file_layers over the entries of the map
RECURSIVE PushLayers(_, _, _, _)
PushLayers(layers, fm, indexed_paths, normalized) ==
    IF indexed_paths = {} THEN layers
    ELSE LET indexed_path == CHOOSE k \in indexed_paths : TRUE
         IN  PushLayers(IF indexed_path = normalized
                        THEN Append(layers, Layer(fm[indexed_path]))
                        ELSE layers,
                        fm, indexed_paths \ {indexed_path}, normalized)

\* layers.sort_by_key(|(_, priority, _)| *priority): a stable sort
RECURSIVE sort_by_priority(_)
sort_by_priority(layers) ==
    IF Len(layers) < 2 THEN layers
    ELSE LET rest == sort_by_priority(Tail(layers))
             before == SelectSeq(rest, LAMBDA l : l.priority < Head(layers).priority)
             after == SelectSeq(rest, LAMBDA l : l.priority >= Head(layers).priority)
         IN  before \o <<Head(layers)>> \o after

\* VirtualFileSystem::get_file_layers
get_file_layers(fm, virtual_path) ==
    sort_by_priority(PushLayers(<<>>, fm, DOMAIN fm, KeyOf(virtual_path)))

\* a caller asks the finished namespace for a path
GetFile(virtual_path) ==
    /\ pc \in {"built", "queried"}
    /\ lookup' = [asked |-> TRUE, path |-> virtual_path,
                  result |-> get_file(file_map, virtual_path)]
    /\ pc' = "queried"
    /\ UNCHANGED <<world, mods, plugin_order, additional_archives, file_map,
                   textures, bsa_files, stats, norm_in, norm_out,
                   dds_in, dds_out, class_in, class_out, header_counts, calls>>

\* the counters of discover_from_bsas, all zero
NoStats ==
    [bsa_count |-> 0, texture_count |-> 0, headers_parsed |-> 0, parse_failed |-> 0,
     too_small |-> 0, decompress_failed |-> 0]

NoLookup == [asked |-> FALSE, path |-> <<>>, result |-> [found |-> FALSE, source |-> NoSource]]

\* the program state right after construction
ProgInit ==
    /\ pc = "start"
    /\ mods = <<>>
    /\ plugin_order = <<>>
    /\ additional_archives = <<>>
    /\ file_map = EmptyMap
    /\ textures = EmptyMap
    /\ bsa_files = <<>>
    /\ stats = NoStats
    /\ lookup = NoLookup
    /\ norm_in = <<>>
    /\ norm_out = <<>>
    /\ dds_in = NotDds(0)
    /\ dds_out = NoHeader
    /\ class_in = <<>>
    /\ class_out = <<>>
    /\ header_counts = NoCounts
    /\ NoCalls

-----------------------------------------------------------------------------
(* Source Registry: Profile::get_plugin_bsas.                              *)

DotEsp == <<".", "e", "s", "p">>
DotEsm == <<".", "e", "s", "m">>
DotEsl == <<".", "e", "s", "l">>
DotBsa == <<".", "b", "s", "a">>
TexturesDotBsa ==
    <<" ", "-", " ", "T", "e", "x", "t", "u", "r", "e", "s", ".", "b", "s", "a">>

\* str::strip_suffix, for a suffix the string ends with
strip_suffix(s, suffix) == SubSeq(s, 1, Len(s) - Len(suffix))

\* plugin.strip_suffix(".esp").or_else(".esm").or_else(".esl").unwrap_or(plugin)
base_name(plugin) ==
    IF ends_with(plugin, DotEsp) THEN strip_suffix(plugin, DotEsp)
    ELSE IF ends_with(plugin, DotEsm) THEN strip_suffix(plugin, DotEsm)
    ELSE IF ends_with(plugin, DotEsl) THEN strip_suffix(plugin, DotEsl)
    ELSE plugin

\* an element (archive path, owning name, priority) of the returned list
BsaTriple(dir, file, owner, priority) ==
    [path |-> Join(dir, file), owner |-> owner, priority |-> priority]

\* the two conventional archives of a plugin that exist in a directory
BsasOfPluginIn(dir, plugin, owner, priority) ==
    (IF FileExists(dir, base_name(plugin) \o DotBsa)
     THEN <<BsaTriple(dir, base_name(plugin) \o DotBsa, owner, priority)>>
     ELSE <<>>)
    \o
    (IF FileExists(dir, base_name(plugin) \o TexturesDotBsa)
     THEN <<BsaTriple(dir, base_name(plugin) \o TexturesDotBsa, owner, priority)>>
     ELSE <<>>)

\* first loop of get_plugin_bsas: the game Data directory
RECURSIVE vanilla_bsas(_)
vanilla_bsas(plugins) ==
    IF plugins = <<>> THEN <<>>
    ELSE BsasOfPluginIn(DataDir, Head(plugins), VanillaName, 0)
             \o vanilla_bsas(Tail(plugins))

\* an inner loop that looks in every mod of `ms`, whether or not it
\* contains the plugin file
RECURSIVE bsas_of_every_mod(_, _)
bsas_of_every_mod(ms, plugin) ==
    IF ms = <<>> THEN <<>>
    ELSE BsasOfPluginIn(Head(ms).path, plugin, Head(ms).name, Head(ms).priority)
             \o bsas_of_every_mod(Tail(ms), plugin)

\* the inner loop with its break: the archives of the first mod of `ms`
\* that contains the plugin file
RECURSIVE bsas_of_owning_mod(_, _)
bsas_of_owning_mod(ms, plugin) ==
    IF ms = <<>> THEN <<>>
    ELSE IF FileExists(Head(ms).path, plugin)
         THEN BsasOfPluginIn(Head(ms).path, plugin, Head(ms).name, Head(ms).priority)
         ELSE bsas_of_owning_mod(Tail(ms), plugin)

\* second loop of get_plugin_bsas: the mod folders
RECURSIVE mod_bsas(_)
mod_bsas(plugins) ==
    IF plugins = <<>> THEN <<>>
    ELSE bsas_of_owning_mod(enabled_mods, Head(plugins)) \o mod_bsas(Tail(plugins))

\* the inner loop of the third loop: the first mod of `ms` that holds the
\* archive named in archives.txt
RECURSIVE archive_in_first_mod(_, _)
archive_in_first_mod(ms, archive_name) ==
    IF ms = <<>> THEN <<>>
    ELSE IF FileExists(Head(ms).path, archive_name)
         THEN <<BsaTriple(Head(ms).path, archive_name, Head(ms).name, Head(ms).priority)>>
         ELSE archive_in_first_mod(Tail(ms), archive_name)

\* third loop of get_plugin_bsas: the entries of archives.txt
RECURSIVE extra_bsas(_)
extra_bsas(archives) ==
    IF archives = <<>> THEN <<>>
    ELSE archive_in_first_mod(enabled_mods, Head(archives)) \o extra_bsas(Tail(archives))

\* Profile::get_plugin_bsas
get_plugin_bsas ==
    vanilla_bsas(plugin_order) \o mod_bsas(plugin_order) \o extra_bsas(additional_archives)

-----------------------------------------------------------------------------
(* Texture Catalog Builder: TextureDiscoveryService.                       *)

DotDds == <<".", "d", "d", "s">>
TexturesPrefix == <<"t", "e", "x", "t", "u", "r", "e", "s">>
TexturesSlash == TexturesPrefix \o <<"/">>
Loose == <<"l", "o", "o", "s", "e">>

\* Option values of a record field: <<>> is None, <<v>> is Some(v)
Some(v) == <<v>>
Absent == <<>>

\* classify_texture testing the first marker without its underscore
classify_texture_bare_marker(path) ==
    LET lower == to_lowercase(path)
    IN  IF ~ends_with(lower, DotDds) THEN Absent
        ELSE LET without_ext == strip_suffix(lower, DotDds)
             IN  IF ends_with(without_ext, <<"n">>) THEN Some("Normal")
                 ELSE IF ends_with(without_ext, <<"_", "s">>) THEN Some("Specular")
                 ELSE IF ends_with(without_ext, <<"_", "m">>) THEN Some("Parallax")
                 ELSE IF ends_with(without_ext, <<"_", "s", "k">>) THEN Some("Subsurface")
                 ELSE IF ends_with(without_ext, <<"_", "m", "s", "n">>)
                      THEN Some("Multi-layer")
                 ELSE IF \/ ends_with(without_ext, <<"_", "e">>)
                         \/ ends_with(without_ext, <<"_", "g">>)
                      THEN Some("Emissive")
                 ELSE IF ends_with(without_ext, <<"_", "e", "m">>)
                      THEN Some("Emissive Mask")
                 ELSE IF \/ ends_with(without_ext, <<"_", "e", "n", "v", "m", "a", "p">>)
                         \/ ends_with(without_ext, <<"_", "e", "n", "v">>)
                      THEN Some("Environment")
                 ELSE Some("Diffuse")

\* classify_texture
classify_texture(path) ==
    LET lower == to_lowercase(path)
    IN  IF ~ends_with(lower, DotDds) THEN Absent
        ELSE LET without_ext == strip_suffix(lower, DotDds)
             IN  IF ends_with(without_ext, <<"_", "n">>) THEN Some("Normal")
                 ELSE IF ends_with(without_ext, <<"_", "s">>) THEN Some("Specular")
                 ELSE IF ends_with(without_ext, <<"_", "m">>) THEN Some("Parallax")
                 ELSE IF ends_with(without_ext, <<"_", "s", "k">>) THEN Some("Subsurface")
                 ELSE IF ends_with(without_ext, <<"_", "m", "s", "n">>)
                      THEN Some("Multi-layer")
                 ELSE IF \/ ends_with(without_ext, <<"_", "e">>)
                         \/ ends_with(without_ext, <<"_", "g">>)
                      THEN Some("Emissive")
                 ELSE IF ends_with(without_ext, <<"_", "e", "m">>)
                      THEN Some("Emissive Mask")
                 ELSE IF \/ ends_with(without_ext, <<"_", "e", "n", "v", "m", "a", "p">>)
                         \/ ends_with(without_ext, <<"_", "e", "n", "v">>)
                      THEN Some("Environment")
                 ELSE Some("Diffuse")

\* TextureRecord::from_loose_file
from_loose_file(internal_path, file_path, file_size) ==
    [internal_path |-> internal_path, actual_path |-> file_path, source |-> Loose,
     file_size |-> file_size, width |-> Absent, height |-> Absent, format |-> Absent,
     texture_type |-> Absent, conflict_count |-> 0]

\* TextureRecord::from_bsa_file
from_bsa_file(internal_path, bsa_path, bsa_name, file_size) ==
    [internal_path |-> internal_path, actual_path |-> bsa_path, source |-> bsa_name,
     file_size |-> file_size, width |-> Absent, height |-> Absent, format |-> Absent,
     texture_type |-> Absent, conflict_count |-> 0]

\* the bytes of a loose texture file of the model
LooseBytes == Dds(148, 1024, 1024, FOURCC_DXT5, 0)

\* the bytes of the files on disk: an archive file, which starts with the
\* magic of its own format, a loose file with a wrong magic, a loose file
\* of fewer than 128 bytes, and well-formed loose files
FileBytes(file_path) ==
    IF ends_with(file_path[2], <<".", "b", "s", "a">>) THEN NotDds(200)
    ELSE IF file_path[2] = TexturesEDecomposed THEN NotDds(200)
    ELSE IF file_path[2] = TexturesXWin THEN Dds(100, 8, 8, FOURCC_DXT1, 0)
    ELSE LooseBytes

\* std::fs::metadata(file_path).len()
FileSize(file_path) == FileBytes(file_path).len

\* VirtualFileSystem::get_texture_files
get_texture_files(fm) ==
    {path \in DOMAIN fm : ends_with(path, DotDds) /\ starts_with(path, TexturesSlash)}

\* discover_from_vfs
discover_from_vfs(fm) ==
    [internal_path \in get_texture_files(fm) |->
        [from_loose_file(internal_path, fm[internal_path].file_path,
                         FileSize(fm[internal_path].file_path))
            EXCEPT !.texture_type = classify_texture(internal_path)]]

\* Phase A
PhaseA ==
    /\ pc = "built"
    /\ textures' = discover_from_vfs(file_map)
    /\ pc' = "phaseA"
    /\ UNCHANGED <<world, mods, plugin_order, additional_archives, file_map,
                   bsa_files, stats, lookup, norm_in, norm_out,
                   dds_in, dds_out, class_in, class_out, header_counts, calls>>

\* the caller asks the registry for the archive list
ListArchives ==
    /\ pc = "phaseA"
    /\ bsa_files' = get_plugin_bsas
    /\ pc' = "listed"
    /\ UNCHANGED <<world, mods, plugin_order, additional_archives, file_map,
                   textures, stats, lookup, norm_in, norm_out,
                   dds_in, dds_out, class_in, class_out, header_counts, calls>>

\* file.decompress(&Default::default()): what the primary codec makes of
\* the stored bytes of an entry
decompress(file) == [ok |-> file.deflate_ok, bytes |-> file.inflated]

\* try_lz4_decompress(file.as_bytes()): what the LZ4 codec makes of the
\* stored bytes of an entry
try_lz4_decompress(file) == [ok |-> file.lz4_ok, bytes |-> file.lz4_inflated]

\* a fallback chain that tries the LZ4 codec before the primary codec
entry_bytes_lz4_first(file) ==
    IF file.is_decompressed THEN [ok |-> TRUE, bytes |-> file.raw]
    ELSE IF try_lz4_decompress(file).ok
         THEN [ok |-> TRUE, bytes |-> try_lz4_decompress(file).bytes]
    ELSE IF decompress(file).ok
         THEN [ok |-> TRUE, bytes |-> decompress(file).bytes]
    ELSE [ok |-> FALSE, bytes |-> file.raw]

\* the bytes the fallback chain of discover_from_bsas obtains for an entry,
\* ok being FALSE when both codecs fail
entry_bytes(file) ==
    IF file.is_decompressed THEN [ok |-> TRUE, bytes |-> file.raw]
    ELSE IF decompress(file).ok
         THEN [ok |-> TRUE, bytes |-> decompress(file).bytes]
    ELSE IF try_lz4_decompress(file).ok
         THEN [ok |-> TRUE, bytes |-> try_lz4_decompress(file).bytes]
    ELSE [ok |-> FALSE, bytes |-> file.raw]

\* a header extraction that hands the bytes to the extractor whatever
\* their length, after the length test has counted them
parse_new_record_without_else(record, st, file) ==
    LET got == entry_bytes(file)
        header == parse_dds_header(got.bytes)
        counted == IF got.bytes.len < 128 THEN [st EXCEPT !.too_small = @ + 1] ELSE st
    IN  IF ~got.ok
        THEN [record |-> record,
              stats |-> [st EXCEPT !.decompress_failed = @ + 1]]
        ELSE IF header.ok
        THEN [record |-> [record EXCEPT !.width = Some(header.width),
                                        !.height = Some(header.height),
                                        !.format = Some(header.format)],
              stats |-> [counted EXCEPT !.headers_parsed = @ + 1]]
        ELSE [record |-> record, stats |-> [counted EXCEPT !.parse_failed = @ + 1]]

\* the header extraction of discover_from_bsas for a new record: the record
\* with its metadata and the counters after it
parse_new_record(record, st, file) ==
    LET got == entry_bytes(file)
        header == parse_dds_header(got.bytes)
    IN  IF ~got.ok
        THEN [record |-> record,
              stats |-> [st EXCEPT !.decompress_failed = @ + 1]]
        ELSE IF got.bytes.len < 128
        THEN [record |-> record, stats |-> [st EXCEPT !.too_small = @ + 1]]
        ELSE IF header.ok
        THEN [record |-> [record EXCEPT !.width = Some(header.width),
                                        !.height = Some(header.height),
                                        !.format = Some(header.format)],
              stats |-> [st EXCEPT !.headers_parsed = @ + 1]]
        ELSE [record |-> record, stats |-> [st EXCEPT !.parse_failed = @ + 1]]

\* full_path.replace('\\', "/").to_lowercase()
bsa_key(full_path) == to_lowercase(replace_backslash(full_path))

\* the filter of discover_from_bsas on the key of an entry
is_bsa_texture(normalized_path) ==
    ends_with(normalized_path, DotDds) /\ starts_with(normalized_path, TexturesPrefix)

\* the body of the entry loop for a texture entry that overwrites a record
\* already present
visit_entry_overwrite(acc, bsa_path, bsa_name, file) ==
    LET normalized_path == bsa_key(file.path)
        record == [from_bsa_file(normalized_path, bsa_path, bsa_name, file.len)
                      EXCEPT !.texture_type = classify_texture(normalized_path)]
        parsed == parse_new_record(
                      record, [acc.stats EXCEPT !.texture_count = @ + 1], file)
    IN  IF ~is_bsa_texture(normalized_path) THEN acc
        ELSE [textures |-> Put(acc.textures, normalized_path, parsed.record),
              stats |-> parsed.stats]

\* the body of the entry loop with a collision that also takes the byte
\* size of the colliding entry
visit_entry_updating_size(acc, bsa_path, bsa_name, file) ==
    LET normalized_path == bsa_key(file.path)
        record == [from_bsa_file(normalized_path, bsa_path, bsa_name, file.len)
                      EXCEPT !.texture_type = classify_texture(normalized_path)]
        parsed == parse_new_record(
                      record, [acc.stats EXCEPT !.texture_count = @ + 1], file)
    IN  IF ~is_bsa_texture(normalized_path) THEN acc
        ELSE IF normalized_path \notin DOMAIN acc.textures
        THEN [textures |-> Put(acc.textures, normalized_path, parsed.record),
              stats |-> parsed.stats]
        ELSE [textures |-> [acc.textures EXCEPT
                               ![normalized_path].conflict_count = @ + 1,
                               ![normalized_path].file_size = file.len],
              stats |-> acc.stats]

\* the body of the entry loop of discover_from_bsas
visit_entry(acc, bsa_path, bsa_name, file) ==
    LET normalized_path == bsa_key(file.path)
        record == [from_bsa_file(normalized_path, bsa_path, bsa_name, file.len)
                      EXCEPT !.texture_type = classify_texture(normalized_path)]
        parsed == parse_new_record(
                      record, [acc.stats EXCEPT !.texture_count = @ + 1], file)
    IN  IF ~is_bsa_texture(normalized_path) THEN acc
        ELSE IF normalized_path \notin DOMAIN acc.textures
        THEN [textures |-> Put(acc.textures, normalized_path, parsed.record),
              stats |-> parsed.stats]
        ELSE [textures |-> [acc.textures EXCEPT
                               ![normalized_path].conflict_count = @ + 1],
              stats |-> acc.stats]

\* the loops over the directories and files of one opened archive
RECURSIVE visit_entries(_, _, _, _)
visit_entries(acc, bsa_path, bsa_name, files) ==
    IF files = {} THEN acc
    ELSE LET file == CHOOSE f \in files : TRUE
         IN  visit_entries(visit_entry(acc, bsa_path, bsa_name, file),
                           bsa_path, bsa_name, files \ {file})

\* bsa_path.file_name()
file_name(path) == path[2]

\* the body of the archive loop of discover_from_bsas: an archive that
\* does not exist or does not open is passed over
visit_archive(acc, bsa) ==
    IF ~FileExists(bsa.path[1], bsa.path[2]) THEN acc
    ELSE IF ~bsa_content[bsa.path].opens THEN acc
    ELSE visit_entries([acc EXCEPT !.stats.bsa_count = @ + 1],
                       bsa.path, file_name(bsa.path), bsa_content[bsa.path].entries)

\* the archive loop taken from the first element of the list to the last
RECURSIVE visit_archives_forward(_, _)
visit_archives_forward(acc, bsa_paths) ==
    IF bsa_paths = <<>> THEN acc
    ELSE visit_archives_forward(visit_archive(acc, Head(bsa_paths)), Tail(bsa_paths))

\* an archive loop that ends at the first archive that is missing or does
\* not open
RECURSIVE visit_archives_until_failure(_, _)
visit_archives_until_failure(acc, bsa_paths) ==
    IF bsa_paths = <<>> THEN acc
    ELSE LET bsa == bsa_paths[Len(bsa_paths)]
         IN  IF \/ ~FileExists(bsa.path[1], bsa.path[2])
                \/ ~bsa_content[bsa.path].opens
             THEN acc
             ELSE visit_archives_until_failure(
                      visit_archive(acc, bsa), SubSeq(bsa_paths, 1, Len(bsa_paths) - 1))

\* for (bsa_path, mod_name, _priority) in bsa_paths.iter().rev()
RECURSIVE visit_archives(_, _)
visit_archives(acc, bsa_paths) ==
    IF bsa_paths = <<>> THEN acc
    ELSE visit_archives(visit_archive(acc, bsa_paths[Len(bsa_paths)]),
                        SubSeq(bsa_paths, 1, Len(bsa_paths) - 1))

\* discover_from_bsas
discover_from_bsas(bsa_paths, catalog) ==
    visit_archives([textures |-> catalog, stats |-> NoStats], bsa_paths)

\* between the listing and the scan, a listed archive file is removed from
\* disk
ArchiveRemoved ==
    /\ pc = "listed"
    /\ \E k \in 1..Len(bsa_files) :
           disk' = [disk EXCEPT ![bsa_files[k].path[1]] = @ \ {bsa_files[k].path[2]}]
    /\ pc' = "listed_stale"
    /\ UNCHANGED <<modlist_txt, loadorder_txt, archives_txt, bsa_content, mods,
                   plugin_order, additional_archives, file_map, textures, bsa_files,
                   stats, lookup, norm_in, norm_out, dds_in, dds_out, class_in, class_out, header_counts, calls>>

\* Phase B
PhaseB ==
    /\ pc \in {"listed", "listed_stale"}
    /\ textures' = discover_from_bsas(bsa_files, textures).textures
    /\ stats' = discover_from_bsas(bsa_files, textures).stats
    /\ pc' = IF pc = "listed" THEN "phaseB" ELSE "phaseB_stale"
    /\ UNCHANGED <<world, mods, plugin_order, additional_archives, file_map,
                   bsa_files, lookup, norm_in, norm_out,
                   dds_in, dds_out, class_in, class_out, header_counts, calls>>

\* the body of the loop of parse_dds_headers for the record of a key: a
\* record that is not loose, or whose file does not open, is passed over
parse_record_header(acc, key) ==
    LET record == acc.textures[key]
        header == parse_dds_header(FileBytes(record.actual_path))
    IN  IF record.source # Loose THEN acc
        ELSE IF ~FileExists(record.actual_path[1], record.actual_path[2]) THEN acc
        ELSE IF header.ok
        THEN [textures |-> [acc.textures EXCEPT ![key].width = Some(header.width),
                                                ![key].height = Some(header.height),
                                                ![key].format = Some(header.format)],
              counts |-> [acc.counts EXCEPT !.parsed = @ + 1]]
        ELSE [textures |-> acc.textures,
              counts |-> [acc.counts EXCEPT !.failed = @ + 1]]

\* for record in textures.values_mut()
RECURSIVE parse_records(_, _)
parse_records(acc, keys) ==
    IF keys = {} THEN acc
    ELSE LET key == CHOOSE k \in keys : TRUE
         IN  parse_records(parse_record_header(acc, key), keys \ {key})

\* parse_dds_headers
parse_dds_headers(catalog) ==
    parse_records([textures |-> catalog, counts |-> NoCounts], DOMAIN catalog)

\* between the scan of the archives and Phase C, the file of a loose record
\* is removed from disk
LooseRemoved ==
    /\ pc = "phaseB"
    /\ \E key \in DOMAIN textures :
           /\ textures[key].source = Loose
           /\ disk' = [disk EXCEPT ![textures[key].actual_path[1]] =
                                       @ \ {textures[key].actual_path[2]}]
    /\ pc' = "phaseB_gone"
    /\ UNCHANGED <<modlist_txt, loadorder_txt, archives_txt, bsa_content, mods,
                   plugin_order, additional_archives, file_map, textures, bsa_files,
                   stats, lookup, norm_in, norm_out, dds_in, dds_out, class_in, class_out,
                   header_counts, calls>>

\* Phase C
PhaseC ==
    /\ pc \in {"phaseB", "phaseB_gone"}
    /\ textures' = parse_dds_headers(textures).textures
    /\ header_counts' = parse_dds_headers(textures).counts
    /\ pc' = "phaseC"
    /\ UNCHANGED <<world, mods, plugin_order, additional_archives, file_map,
                   bsa_files, stats, lookup, norm_in, norm_out,
                   dds_in, dds_out, class_in, class_out, calls>>

-----------------------------------------------------------------------------
(* The manifest specification: every modlist.txt of at most MaxLines lines *)
(* is loaded.                                                              *)

ManifestLines ==
    { <<"+", "A">>, <<"-", "B">>, <<"*", "S">>, <<" ", "+", "B", " ">>,
      <<>>, <<" ">>, <<"#", "c">>, <<"A">> }

LoadorderTexts ==
    { NoFile,
      TextFile(<< <<"*", "P", ".", "e", "s", "p">>, <<"#", "c">>, <<>>,
                  <<"Q", ".", "e", "s", "m">> >>) }

ArchivesTexts == { NoFile, TextFile(<< <<"P", ".", "b", "s", "a">>, <<" ">> >>) }

InitManifest ==
    /\ modlist_txt \in {TextFile(l) : l \in SeqsUpTo(ManifestLines, MaxLines)} \cup {NoFile}
    /\ loadorder_txt \in LoadorderTexts
    /\ archives_txt \in ArchivesTexts
    /\ disk = EmptyMap
    /\ bsa_content = EmptyMap
    /\ ProgInit

NextManifest == Load

SpecManifest == InitManifest /\ [][NextManifest]_vars

\* the position in the stored mod list of the mod parsed from line i, when
\* line i is tagged: the number of tagged lines up to and including line i
IsTagged(raw) == trim(raw) # <<>> /\ Head(trim(raw)) \in {"+", "-", "*"}

ManifestLine(i) == modlist_txt.lines[i]
ManifestLen == Len(modlist_txt.lines)

TaggedUpTo(i) == Cardinality({j \in 1..i : IsTagged(ManifestLine(j))})

\* C10: parsing the ranked manifest gives ranks that start at 0, are unique
\* and strictly increase in file order; every line tagged +, - or * consumes
\* exactly one rank slot, enabled or not: the mod of the n-th tagged line has
\* rank n-1, and the list holds one mod per tagged line.
C10_RanksByTaggedLine ==
    pc = "loaded" =>
        /\ Len(mods) = TaggedUpTo(ManifestLen)
        /\ \A i \in 1..ManifestLen :
               IsTagged(ManifestLine(i)) =>
                   /\ mods[TaggedUpTo(i)].priority = TaggedUpTo(i) - 1
                   /\ mods[TaggedUpTo(i)].name = Tail(trim(ManifestLine(i)))
        /\ \A i, j \in 1..Len(mods) : i < j => mods[i].priority < mods[j].priority
        /\ (mods # <<>> => mods[1].priority = 0)

\* a manifest with an untagged line, a disabled line and an enabled line
\* after them has been parsed
C10_Witness ==
    /\ pc = "loaded"
    /\ ManifestLen = 3
    /\ ~IsTagged(ManifestLine(1))
    /\ IsTagged(ManifestLine(2)) /\ Head(trim(ManifestLine(2))) = "-"
    /\ IsTagged(ManifestLine(3)) /\ Head(trim(ManifestLine(3))) = "+"
    /\ Len(mods) = 2
    /\ mods[2].state = Enabled

-----------------------------------------------------------------------------
(* The namespace specification: a profile is loaded, the namespace is      *)
(* built, rebuilt and queried, over every small set of directory trees.    *)

VfsRelPaths == {TexturesX, TexturesXWin, TexturesEDecomposed}

VfsQueries == {TexturesX, TexturesXWin, TexturesEDecomposed}

VfsLines == { <<"+", "A">>, <<"+", "B">>, <<"-", "A">> }

VfsDirs == {DataDir, ModPath(ModA), ModPath(ModB)}

\* the directories that exist: all of them, all but the game Data directory,
\* all but the directory of mod B
VfsDirSets == {VfsDirs, VfsDirs \ {DataDir}, VfsDirs \ {ModPath(ModB)}}

VfsTrees == {t \in SUBSET VfsRelPaths : Cardinality(t) <= MaxTreeFiles}

InitVfs ==
    /\ modlist_txt \in {TextFile(l) : l \in SeqsUpTo(VfsLines, MaxMods)}
    /\ loadorder_txt = NoFile
    /\ archives_txt = NoFile
    /\ disk \in UNION {[D -> VfsTrees] : D \in VfsDirSets}
    /\ bsa_content = EmptyMap
    /\ ProgInit

NextVfs ==
    \/ Load
    \/ Build
    \/ \E q \in VfsQueries : GetFile(q)

SpecVfs == InitVfs /\ [][NextVfs]_vars

\* the positions, in the mod list, of the enabled mods whose tree holds a
\* file with the key
OverlayProviders(key) ==
    {i \in 1..Len(mods) :
        /\ mods[i].state = Enabled
        /\ \E rel \in TreeFiles(mods[i].path) : KeyOf(rel) = key}

BaseProvides(key) == \E rel \in TreeFiles(DataDir) : KeyOf(rel) = key

ProvidedKeys ==
    {KeyOf(rel) : rel \in UNION {TreeFiles(d) : d \in DOMAIN disk}}

TopProvider(key) ==
    CHOOSE i \in OverlayProviders(key) :
        \A j \in OverlayProviders(key) : mods[j].priority <= mods[i].priority

C2_OverlayBeatsBase ==
    pc = "built" =>
        \A key \in ProvidedKeys :
            (BaseProvides(key) /\ OverlayProviders(key) # {}) =>
                /\ key \in DOMAIN file_map
                /\ file_map[key].kind = "Mod"

\* C6: two builds of the namespace from the same registry state and the
\* same directory trees produce identical maps: a rebuild leaves every key
\* with the source it had.
C6_RebuildIdentical ==
    [][(pc = "built" /\ pc' = "built") => file_map' = file_map]_vars

\* C9: get_file(p) returns the winning source stored under normalize(p),
\* for every path string p.
C9_LookupByNormalizedKey ==
    lookup.asked => lookup.result = get_file_normalized(file_map, lookup.path)

-----------------------------------------------------------------------------
(* The normalizer specification: normalize_path is applied to two paths    *)
(* that differ only in letter case or in the separator character.          *)

PathAlphabet == {"e", "E", "/", "\\", "acute", "e_acute", "E_acute"}

\* the characters that differ from c in letter case or separator only
CaseOrSeparatorAlternatives(c) ==
    CASE c \in {"e", "E"} -> {"e", "E"}
      [] c \in {"/", "\\"} -> {"/", "\\"}
      [] c \in {"e_acute", "E_acute"} -> {"e_acute", "E_acute"}
      [] OTHER -> {c}

DiffersOnlyInCaseOrSeparator(a, b) ==
    /\ Len(a) = Len(b)
    /\ \A i \in 1..Len(a) : b[i] \in CaseOrSeparatorAlternatives(a[i])

RECURSIVE Variants(_)
Variants(a) ==
    IF a = <<>> THEN {<<>>}
    ELSE {<<c>> \o v : c \in CaseOrSeparatorAlternatives(Head(a)), v \in Variants(Tail(a))}

InitNormalize ==
    /\ modlist_txt = NoFile
    /\ loadorder_txt = NoFile
    /\ archives_txt = NoFile
    /\ disk = EmptyMap
    /\ bsa_content = EmptyMap
    /\ pc = "start"
    /\ mods = <<>>
    /\ plugin_order = <<>>
    /\ additional_archives = <<>>
    /\ file_map = EmptyMap
    /\ textures = EmptyMap
    /\ bsa_files = <<>>
    /\ stats = NoStats
    /\ lookup = NoLookup
    /\ \E a \in SeqsUpTo(PathAlphabet, MaxLen) :
       \E b \in Variants(a) : norm_in = <<a, b>>
    /\ norm_out = <<>>
    /\ dds_in = NotDds(0)
    /\ dds_out = NoHeader
    /\ class_in = <<>>
    /\ class_out = <<>>
    /\ header_counts = NoCounts
    /\ NoCalls

\* normalize_path is called on both paths
Normalize ==
    /\ pc = "start"
    /\ norm_out' = <<normalize_path(norm_in[1]), normalize_path(norm_in[2])>>
    /\ pc' = "normalized"
    /\ UNCHANGED <<world, mods, plugin_order, additional_archives, file_map, textures,
                   bsa_files, stats, lookup, norm_in, dds_in, dds_out, class_in, class_out, header_counts, calls>>

NextNormalize == Normalize

SpecNormalize == InitNormalize /\ [][NextNormalize]_vars

\* the namespace holding the first path as a base file and the second as
\* a file of an enabled overlay
NamespaceOfPair(a, b) ==
    index_mod_files(index_vanilla_files(EmptyMap, <<a>>),
                    ModOfLine(<<"+", "A">>, 0), <<b>>)

-----------------------------------------------------------------------------
(* The catalog specification: the whole pipeline, from the profile to the  *)
(* end of Phase B, over loose files, plugins and archives on disk.         *)

\* archive entries: a texture stored decompressed, a texture whose path
\* holds a decomposed accent and that only the LZ4 codec can read, a file
\* of a directory named textures2 that no codec can read, and a mesh
EntryX ==
    [path |-> TexturesXUpper, len |-> 148, is_decompressed |-> TRUE,
     deflate_ok |-> FALSE, lz4_ok |-> FALSE,
     raw |-> Dds(148, 512, 512, FOURCC_DXT1, 0),
     inflated |-> Dds(148, 512, 512, FOURCC_DXT1, 0),
     lz4_inflated |-> Dds(148, 512, 512, FOURCC_DXT1, 0)]

EntryE ==
    [path |-> TexturesEDecomposed, len |-> 90, is_decompressed |-> FALSE,
     deflate_ok |-> FALSE, lz4_ok |-> TRUE,
     raw |-> NotDds(90),
     inflated |-> NotDds(0),
     lz4_inflated |-> Dds(148, 256, 256, FOURCC_DX10, DXGI_FORMAT_BC7_UNORM)]

Entry2 ==
    [path |-> Textures2X, len |-> 60, is_decompressed |-> FALSE,
     deflate_ok |-> FALSE, lz4_ok |-> FALSE,
     raw |-> NotDds(60),
     inflated |-> NotDds(0),
     lz4_inflated |-> NotDds(0)]

EntryMesh ==
    [path |-> MeshesX, len |-> 200, is_decompressed |-> TRUE,
     deflate_ok |-> FALSE, lz4_ok |-> FALSE,
     raw |-> NotDds(200),
     inflated |-> NotDds(200),
     lz4_inflated |-> NotDds(200)]

\* a normal map whose stored bytes both codecs read, each to other bytes
EntryBoth ==
    [path |-> TexturesXN, len |-> 100, is_decompressed |-> FALSE,
     deflate_ok |-> TRUE, lz4_ok |-> TRUE,
     raw |-> NotDds(100),
     inflated |-> Dds(148, 2048, 2048, FOURCC_ATI2, 0),
     lz4_inflated |-> Dds(140, 64, 64, FOURCC_DXT3, 0)]

\* a texture the primary codec reads to fewer than 128 bytes
EntryShort ==
    [path |-> TexturesXS, len |-> 40, is_decompressed |-> FALSE,
     deflate_ok |-> TRUE, lz4_ok |-> TRUE,
     raw |-> NotDds(40),
     inflated |-> Dds(64, 16, 16, FOURCC_DXT1, 0),
     lz4_inflated |-> Dds(148, 16, 16, FOURCC_DXT1, 0)]

\* a texture stored decompressed whose bytes do not start with the magic
EntryBadMagic ==
    [path |-> TexturesXM, len |-> 200, is_decompressed |-> TRUE,
     deflate_ok |-> FALSE, lz4_ok |-> FALSE,
     raw |-> NotDds(200),
     inflated |-> NotDds(200),
     lz4_inflated |-> NotDds(200)]

\* what an archive file holds: it does not open, or it opens to its entries
ArchiveContents ==
    { [opens |-> FALSE, entries |-> {}],
      [opens |-> TRUE, entries |-> {EntryX}],
      [opens |-> TRUE,
       entries |-> {EntryE, Entry2, EntryMesh, EntryBoth, EntryShort, EntryBadMagic}] }

CatDirs == {DataDir, ModPath(ModA), ModPath(ModB)}

\* the places an archive file can be at
ArchiveSlots == {Join(d, name) : d \in CatDirs, name \in {BsaP, BsaPTextures}}

\* the loose textures on disk
CatLoose ==
    { [d \in CatDirs |-> {}],
      [d \in CatDirs |-> IF d = DataDir THEN {TexturesX} ELSE {}],
      [d \in CatDirs |-> IF d = ModPath(ModA) THEN {TexturesEDecomposed} ELSE {}],
      [d \in CatDirs |-> IF d = ModPath(ModB) THEN {TexturesXWin} ELSE {}] }

\* the mods whose directory holds the plugin file
CatPluginHolders == { {ModPath(ModA), ModPath(ModB)}, {ModPath(ModB)} }

CatModlists ==
    { << <<"+", "A">> >>,
      << <<"+", "A">>, <<"+", "B">> >>,
      << <<"-", "A">>, <<"+", "B">> >> }

Init ==
    /\ modlist_txt \in {TextFile(l) : l \in CatModlists}
    /\ loadorder_txt = TextFile(<< <<"*">> \o PluginP >>)
    /\ archives_txt \in {NoFile, TextFile(<<BsaP>>)}
    /\ \E loose \in CatLoose, holders \in CatPluginHolders :
       \E slots \in {S \in SUBSET ArchiveSlots : Cardinality(S) <= MaxArchives} :
           /\ disk = [d \in CatDirs |->
                         loose[d]
                             \cup (IF d \in holders THEN {PluginP} ELSE {})
                             \cup {a[2] : a \in {b \in slots : b[1] = d}}]
           /\ bsa_content \in [slots -> ArchiveContents]
    /\ ProgInit

Next ==
    \/ Load
    \/ Build
    \/ PhaseA
    \/ ListArchives
    \/ ArchiveRemoved
    \/ PhaseB

Spec == Init /\ [][Next]_vars

\* the positions, in the archive list, of the archives that open and hold
\* an entry with the key
ArchiveProviders(key) ==
    {i \in 1..Len(bsa_files) :
        /\ bsa_content[bsa_files[i].path].opens
        /\ \E f \in bsa_content[bsa_files[i].path].entries : bsa_key(f.path) = key}

\* the archives that provide the key
ProvidingArchives(key) == {bsa_files[i].path : i \in ArchiveProviders(key)}

\* C3: a key that has a loose-file record after Phase A still has a record
\* with origin "loose" and the same physical file path after Phase B: no
\* archive entry ever displaces a loose file.
C3_LooseNeverDisplaced ==
    [][(pc = "listed" /\ pc' = "phaseB") =>
          \A key \in DOMAIN textures :
              textures[key].source = Loose =>
                  /\ key \in DOMAIN textures'
                  /\ textures'[key].source = Loose
                  /\ textures'[key].actual_path = textures[key].actual_path]_vars

\* Phase B has met, in the archive of an overlay of rank 1, an entry with
\* the key of a loose file
C3_Witness ==
    /\ pc = "phaseB"
    /\ \E key \in DOMAIN textures :
           /\ textures[key].source = Loose
           /\ textures[key].conflict_count >= 1
           /\ \E i \in ArchiveProviders(key) : bsa_files[i].priority >= 1

\* C4: Phase B run on the list the registry returns opens the archives
\* lowest rank first, so for a key with no loose file that several archives
\* provide, the record belongs to the lowest-ranked archive that provides
\* the key.
C4_LowestRankedArchiveWins ==
    pc = "phaseB" =>
        \A key \in DOMAIN textures :
            (textures[key].source # Loose /\ Cardinality(ProvidingArchives(key)) >= 2) =>
                \E i \in ArchiveProviders(key) :
                    /\ bsa_files[i].path = textures[key].actual_path
                    /\ \A j \in ArchiveProviders(key) :
                           bsa_files[i].priority <= bsa_files[j].priority

\* C5: after Phase B the conflict_count of every record equals the number
\* of distinct archives, other than the archive that owns the record, that
\* provide the record's key.
C5_ConflictCountIsOtherArchives ==
    pc = "phaseB" =>
        \A key \in DOMAIN textures :
            textures[key].conflict_count =
                Cardinality(ProvidingArchives(key) \ {textures[key].actual_path})

\* C7: key identity is computed the same way in every phase, so the catalog
\* never holds two keys that the normalizer maps to the same value.
C7_OneRecordPerNormalizedKey ==
    pc = "phaseB" =>
        \A k1, k2 \in DOMAIN textures :
            normalize_path(k1) = normalize_path(k2) => k1 = k2

-----------------------------------------------------------------------------
(* Claims on the registry, under the manifest specification.               *)

\* the lines tagged +
PlusLines ==
    {i \in 1..ManifestLen :
        IsTagged(ManifestLine(i)) /\ Head(trim(ManifestLine(i))) = "+"}

\* the mods parsed from the lines tagged +
PlusMods == {mods[TaggedUpTo(i)] : i \in PlusLines}

Elements(s) == {s[i] : i \in 1..Len(s)}

\* C11: enabled_mods yields exactly the mods whose manifest line was tagged
\* +, in ascending rank order, and enabled_mods_reverse yields the same set
\* in descending rank order; a mod tagged - or * appears in neither.
C11_EnabledInRankOrder ==
    pc = "loaded" =>
        /\ Elements(enabled_mods) = PlusMods
        /\ Elements(enabled_mods_reverse) = PlusMods
        /\ Len(enabled_mods) = Cardinality(PlusLines)
        /\ Len(enabled_mods_reverse) = Cardinality(PlusLines)
        /\ \A i, j \in 1..Len(enabled_mods) :
               i < j => enabled_mods[i].priority < enabled_mods[j].priority
        /\ \A i, j \in 1..Len(enabled_mods_reverse) :
               i < j => enabled_mods_reverse[i].priority > enabled_mods_reverse[j].priority
        /\ \A i \in 1..ManifestLen :
               (IsTagged(ManifestLine(i)) /\ Head(trim(ManifestLine(i))) \in {"-", "*"}) =>
                   /\ mods[TaggedUpTo(i)] \notin Elements(enabled_mods)
                   /\ mods[TaggedUpTo(i)] \notin Elements(enabled_mods_reverse)

\* a manifest with two lines tagged + and a line tagged - or * between
\* them has been loaded
C11_Witness ==
    /\ pc = "loaded"
    /\ ManifestLen = 3
    /\ PlusLines = {1, 3}
    /\ IsTagged(ManifestLine(2))
    /\ Len(enabled_mods_reverse) = 2
    /\ enabled_mods_reverse[1].priority = 2

Malformed(raw) == trim(raw) # <<>> /\ ~IsTagged(raw)

\* C14: a line of modlist.txt whose first character is none of +, - and *
\* is skipped: it creates no mod, it does not abort the load, and every
\* well-formed line after it is still loaded.
C14_MalformedLineSkipped ==
    (pc # "start" /\ modlist_txt.exists) =>
        /\ pc = "loaded"
        /\ Len(mods) = TaggedUpTo(ManifestLen)
        /\ \A i \in 1..ManifestLen :
               Malformed(ManifestLine(i)) =>
                   \A j \in (i + 1)..ManifestLen :
                       IsTagged(ManifestLine(j)) =>
                           /\ mods[TaggedUpTo(j)].name = Tail(trim(ManifestLine(j)))
                           /\ mods[TaggedUpTo(j)].path = ModPath(Tail(trim(ManifestLine(j))))
                           /\ mods[TaggedUpTo(j)].state =
                                  IF Head(trim(ManifestLine(j))) = "+"
                                  THEN Enabled ELSE Disabled

\* a manifest with a malformed line between two tagged lines has been
\* loaded
C14_Witness ==
    /\ pc = "loaded"
    /\ ManifestLen = 3
    /\ IsTagged(ManifestLine(1))
    /\ Malformed(ManifestLine(2))
    /\ IsTagged(ManifestLine(3))
    /\ Len(mods) = 2

-----------------------------------------------------------------------------
(* Claims on the namespace build, under the namespace specification.       *)

\* the root directories the build reads: the game Data directory and the
\* directories of the enabled mods
BuildRoots == {DataDir} \cup {enabled_mods[i].path : i \in 1..Len(enabled_mods)}

\* C13 as stated: the namespace build aborts with an error when the game
\* Data directory, or the directory of an enabled mod, does not exist; a
\* namespace is built only when every root exists.
C13_MissingRootAborts ==
    pc \in {"built", "queried"} => \A d \in BuildRoots : DirExists(d)

\* C13 as amended: the namespace build never aborts because a root is
\* missing; a missing game Data directory or enabled mod directory is
\* skipped, and the keys of the map are the keys of the files under the
\* roots that exist.
C13_MissingRootIsSkipped ==
    /\ pc # "build_failed"
    /\ pc \in {"built", "queried"} =>
           DOMAIN file_map = {KeyOf(rel) : rel \in UNION {TreeFiles(d) : d \in BuildRoots}}

\* a namespace has been built from a profile that enables mod B, whose
\* directory does not exist, and from files of other roots
C13_Witness ==
    /\ pc = "built"
    /\ ModPath(ModB) \in BuildRoots
    /\ ~DirExists(ModPath(ModB))
    /\ file_map # EmptyMap

\* the elements get_file_layers is to return for a key: one for the game
\* Data directory and one for each enabled mod that provides the key
ExpectedLayers(key) ==
    (IF BaseProvides(key) THEN {<<VanillaName, 0>>} ELSE {})
        \cup {<<mods[i].name, mods[i].priority>> : i \in OverlayProviders(key)}

\* C24: get_file_layers(p) returns one element for every source, the base
\* root and each enabled overlay, that provides the path p, as (name,
\* priority, path), sorted by priority from lowest to highest so that the
\* last element is the winner.
C24_OneLayerPerProvider ==
    pc = "built" =>
        \A p \in VfsQueries :
            LET layers == get_file_layers(file_map, p)
            IN  /\ {<<layers[i].name, layers[i].priority>> : i \in 1..Len(layers)}
                       = ExpectedLayers(KeyOf(p))
                /\ Len(layers) = Cardinality(ExpectedLayers(KeyOf(p)))
                /\ \A i, j \in 1..Len(layers) :
                       i < j => layers[i].priority <= layers[j].priority
                /\ layers # <<>> =>
                       layers[Len(layers)].path = file_map[KeyOf(p)].file_path

-----------------------------------------------------------------------------
(* Claims on the archive list, under the catalog specification.            *)

\* the two conventional archive names of a load-order entry
ConventionalNames(plugin) ==
    {base_name(plugin) \o DotBsa, base_name(plugin) \o TexturesDotBsa}

\* the positions, in the mod list, of the enabled mods
EnabledPositions == {i \in 1..Len(mods) : mods[i].state = Enabled}

\* the triple of an archive file of a mod
TripleOfMod(i, name) ==
    [path |-> Join(mods[i].path, name), owner |-> mods[i].name,
     priority |-> mods[i].priority]

\* the enabled mods that hold a file of that name, and the first of them
HoldersOf(name) == {i \in EnabledPositions : FileExists(mods[i].path, name)}
FirstHolderOf(name) == CHOOSE i \in HoldersOf(name) : \A j \in HoldersOf(name) : i <= j

\* the triples of the conventional archives of a load-order entry in the
\* game Data directory
BaseTriples(plugin) ==
    {[path |-> Join(DataDir, n), owner |-> VanillaName, priority |-> 0] :
        n \in {c \in ConventionalNames(plugin) : FileExists(DataDir, c)}}

\* the triples of its conventional archives in the first enabled mod that
\* holds the plugin file
OwnerTriples(plugin) ==
    IF HoldersOf(plugin) = {} THEN {}
    ELSE {TripleOfMod(FirstHolderOf(plugin), n) :
             n \in {c \in ConventionalNames(plugin) :
                       FileExists(mods[FirstHolderOf(plugin)].path, c)}}

\* the triple of an archives.txt entry: in the first enabled mod holding it
ExtraTriples(name) ==
    IF HoldersOf(name) = {} THEN {} ELSE {TripleOfMod(FirstHolderOf(name), name)}

\* how many times the registry is to list a triple
TimesListed(t) ==
    Cardinality({i \in 1..Len(plugin_order) :
                    t \in BaseTriples(plugin_order[i]) \cup OwnerTriples(plugin_order[i])})
    + Cardinality({k \in 1..Len(additional_archives) :
                      t \in ExtraTriples(additional_archives[k])})

\* C15 as stated: get_plugin_bsas returns, for every load-order entry, one
\* triple for each conventional archive that exists in the game Data
\* directory and one for each that exists in the directory of any enabled
\* mod, with the mod's name and rank as owner.
C15_ArchivesOfAnyEnabledMod ==
    pc \in {"listed", "phaseB"} =>
        \A p \in 1..Len(plugin_order) :
            /\ BaseTriples(plugin_order[p]) \subseteq Elements(bsa_files)
            /\ \A i \in EnabledPositions :
                   \A n \in ConventionalNames(plugin_order[p]) :
                       FileExists(mods[i].path, n) =>
                           TripleOfMod(i, n) \in Elements(bsa_files)

\* C15 as amended: for every load-order entry the list holds one triple for
\* each conventional archive that exists in the game Data directory and one
\* for each that exists in the directory of the first enabled mod, in
\* ascending rank, that holds the entry's plugin file, with that mod's name
\* and rank as owner; no other mod is searched for the entry, and the only
\* other triples are those of the archives.txt entries.
C15_ArchivesOfOwningMod ==
    pc \in {"listed", "phaseB"} =>
        /\ \A p \in 1..Len(plugin_order) :
               BaseTriples(plugin_order[p]) \cup OwnerTriples(plugin_order[p])
                   \subseteq Elements(bsa_files)
        /\ \A k \in 1..Len(bsa_files) :
               Cardinality({j \in 1..Len(bsa_files) : bsa_files[j] = bsa_files[k]})
                   = TimesListed(bsa_files[k])

\* the list has been made for a profile with two enabled mods that both
\* hold the plugin file, with an archive in the game Data directory and one
\* in the first mod
C15_Witness ==
    /\ pc = "listed"
    /\ Cardinality(EnabledPositions) = 2
    /\ \A i \in EnabledPositions : FileExists(mods[i].path, PluginP)
    /\ Len(bsa_files) = 2
    /\ bsa_files[1].owner = VanillaName
    /\ bsa_files[2].owner = ModA
    /\ bsa_files[2].priority = 0

-----------------------------------------------------------------------------
(* Claims on Phase B, under the catalog specification.                     *)

\* width, height and format of a record
MetadataOf(record) == <<record.width, record.height, record.format>>

NoMetadata == <<Absent, Absent, Absent>>

\* the metadata a buffer gives: none when it has fewer than 128 bytes or
\* does not start with the magic
MetadataIn(bytes) ==
    IF bytes.len >= 128 /\ bytes.magic = DDS_MAGIC
    THEN <<Some(bytes.width), Some(bytes.height),
           Some(header_format(bytes.pixel_format_flags, bytes.fourcc,
                              header_buffer_tail(bytes)))>>
    ELSE NoMetadata

\* the metadata of a record made from an entry, the bytes taken in the
\* fixed order
MetadataExpected(file) ==
    IF file.is_decompressed THEN MetadataIn(file.raw)
    ELSE IF file.deflate_ok THEN MetadataIn(file.inflated)
    ELSE IF file.lz4_ok THEN MetadataIn(file.lz4_inflated)
    ELSE NoMetadata

\* the listed archives that open
OpenedArchives ==
    {bsa_files[k].path : k \in {j \in 1..Len(bsa_files) : bsa_content[bsa_files[j].path].opens}}

\* the texture entries of an archive
TextureEntries(a) == {f \in bsa_content[a].entries : is_bsa_texture(bsa_key(f.path))}

\* C16: for each new archive entry the bytes are obtained in a fixed order:
\* the raw bytes when the entry is already decompressed; otherwise the
\* primary codec; the LZ4 codec only after the primary codec has failed,
\* on the stored bytes; when both fail the record is still inserted,
\* without width, height or format.
C16_FallbackOrder ==
    pc = "phaseB" =>
        \A a \in OpenedArchives :
            \A f \in TextureEntries(a) :
                /\ bsa_key(f.path) \in DOMAIN textures
                /\ (/\ textures[bsa_key(f.path)].source # Loose
                    /\ textures[bsa_key(f.path)].actual_path = a) =>
                       MetadataOf(textures[bsa_key(f.path)]) = MetadataExpected(f)

\* Phase B has made records from an entry both codecs read, from an entry
\* only the LZ4 codec reads and from an entry no codec reads
C16_Witness ==
    /\ pc = "phaseB"
    /\ bsa_key(TexturesXN) \in DOMAIN textures
    /\ textures[bsa_key(TexturesXN)].width = Some(2048)
    /\ bsa_key(TexturesEDecomposed) \in DOMAIN textures
    /\ textures[bsa_key(TexturesEDecomposed)].source # Loose
    /\ textures[bsa_key(TexturesEDecomposed)].format = Some("BC7")
    /\ bsa_key(Textures2X) \in DOMAIN textures
    /\ MetadataOf(textures[bsa_key(Textures2X)]) = NoMetadata
    /\ stats.decompress_failed >= 1

\* the positions of the list whose archive is on disk and opens
ScannedPositions ==
    {k \in 1..Len(bsa_files) :
        /\ FileExists(bsa_files[k].path[1], bsa_files[k].path[2])
        /\ bsa_content[bsa_files[k].path].opens}

\* C17: Phase B always completes and returns success: an archive that is
\* missing or fails to open is skipped and every remaining archive of the
\* list is still scanned, and an entry whose decompression or header parse
\* fails never stops the scan of the other entries.
C17_ScanNeverStops ==
    pc \in {"phaseB", "phaseB_stale"} =>
        /\ stats.bsa_count = Cardinality(ScannedPositions)
        /\ \A k \in ScannedPositions :
               \A f \in TextureEntries(bsa_files[k].path) :
                   bsa_key(f.path) \in DOMAIN textures
        /\ stats.texture_count =
               stats.headers_parsed + stats.parse_failed + stats.too_small
                   + stats.decompress_failed
        /\ Cardinality(DOMAIN textures) =
               Cardinality(get_texture_files(file_map)) + stats.texture_count

\* Phase B has run on a list of two archives whose last, the first to be
\* visited, was removed from disk; the other has been scanned, some of its
\* entries failing
C17_Witness ==
    /\ pc = "phaseB_stale"
    /\ Len(bsa_files) = 2
    /\ ScannedPositions = {1}
    /\ ~FileExists(bsa_files[2].path[1], bsa_files[2].path[2])
    /\ stats.decompress_failed >= 1
    /\ stats.too_small >= 1
    /\ stats.headers_parsed >= 1

\* C23: every key in the catalog after Phases A and B satisfies the one
\* texture predicate the namespace iterator applies: it ends with .dds and
\* begins with the root prefix textures/ ; an archive entry outside that
\* prefix, for example under a directory named textures2, is never
\* catalogued.
C23_KeysUnderTexturesRoot ==
    pc \in {"phaseA", "listed", "phaseB"} =>
        \A key \in DOMAIN textures :
            /\ ends_with(key, <<".", "d", "d", "s">>)
            /\ starts_with(key, <<"t", "e", "x", "t", "u", "r", "e", "s", "/">>)

\* the enabled mod of highest rank among those that hold a file of that name
LastHolderOf(name) == CHOOSE i \in HoldersOf(name) : \A j \in HoldersOf(name) : j <= i

\* C30: when several enabled overlays contain the same load-order plugin
\* file, the archives located for that plugin are taken from the overlay
\* that wins the plugin file in the namespace, the highest-ranked enabled
\* overlay containing it, and carry that overlay's name and rank.
C30_ArchivesOfNamespaceWinner ==
    pc = "listed" =>
        \A p \in 1..Len(plugin_order) :
            LET plugin == plugin_order[p]
                winner == file_map[KeyOf(plugin)]
            IN  Cardinality(HoldersOf(plugin)) >= 2 =>
                    /\ winner.mod_name = mods[LastHolderOf(plugin)].name
                    /\ \A n \in ConventionalNames(plugin) :
                           /\ FileExists(mods[LastHolderOf(plugin)].path, n) =>
                                  TripleOfMod(LastHolderOf(plugin), n) \in Elements(bsa_files)
                           /\ \A i \in HoldersOf(plugin) :
                                  (/\ TripleOfMod(i, n) \in Elements(bsa_files)
                                   /\ n \notin Elements(additional_archives)) =>
                                      /\ mods[i].name = winner.mod_name
                                      /\ mods[i].priority = winner.mod_priority

-----------------------------------------------------------------------------
(* The extractor specification: parse_dds_header is called on a stream.    *)

DdsLens == {0, 64, 127, 128, 130, 148, 200}

DdsMagics == {DDS_MAGIC, 0, FOURCC_DXT1}

\* dwHeight and dwWidth
DdsSizes == {<<1, 1024>>, <<4096, 2>>}

\* pixel format flags: none, DDPF_FOURCC, DDPF_FOURCC with DDPF_ALPHAPIXELS,
\* DDPF_RGB, DDPF_RGB with DDPF_ALPHAPIXELS
DdsFlags == {0, 4, 5, 64, 65}

KnownTags ==
    {FOURCC_DXT1, FOURCC_DXT2, FOURCC_DXT3, FOURCC_DXT4, FOURCC_DXT5, FOURCC_DX10,
     FOURCC_BC4U, FOURCC_BC4S, FOURCC_BC5U, FOURCC_BC5S, FOURCC_ATI1, FOURCC_ATI2}

\* the tags "ABCD" and "DXT6", and the tag of four zero bytes
UnknownTags == {read_u32(<<65, 66, 67, 68>>), read_u32(<<68, 88, 84, 54>>), 0}

KnownCodes ==
    {DXGI_FORMAT_BC1_UNORM, DXGI_FORMAT_BC1_UNORM_SRGB, DXGI_FORMAT_BC2_UNORM,
     DXGI_FORMAT_BC2_UNORM_SRGB, DXGI_FORMAT_BC3_UNORM, DXGI_FORMAT_BC3_UNORM_SRGB,
     DXGI_FORMAT_BC4_UNORM, DXGI_FORMAT_BC4_SNORM, DXGI_FORMAT_BC5_UNORM,
     DXGI_FORMAT_BC5_SNORM, DXGI_FORMAT_BC6H_UF16, DXGI_FORMAT_BC6H_SF16,
     DXGI_FORMAT_BC7_UNORM, DXGI_FORMAT_BC7_UNORM_SRGB}

UnknownCodes == {0, 70, 97, 100, 355}

InitDds ==
    /\ modlist_txt = NoFile
    /\ loadorder_txt = NoFile
    /\ archives_txt = NoFile
    /\ disk = EmptyMap
    /\ bsa_content = EmptyMap
    /\ pc = "start"
    /\ mods = <<>>
    /\ plugin_order = <<>>
    /\ additional_archives = <<>>
    /\ file_map = EmptyMap
    /\ textures = EmptyMap
    /\ bsa_files = <<>>
    /\ stats = NoStats
    /\ lookup = NoLookup
    /\ norm_in = <<>>
    /\ norm_out = <<>>
    /\ \E len \in DdsLens, magic \in DdsMagics, size \in DdsSizes, flags \in DdsFlags :
       \E fourcc \in KnownTags \cup UnknownTags, code \in KnownCodes \cup UnknownCodes :
           dds_in = Bytes(len, magic, size[1], size[2], flags, fourcc, to_le_bytes(code))
    /\ dds_out = NoHeader
    /\ class_in = <<>>
    /\ class_out = <<>>
    /\ header_counts = NoCounts
    /\ NoCalls

\* parse_dds_header is called on the stream
ParseDds ==
    /\ pc = "start"
    /\ dds_out' = parse_dds_header(dds_in)
    /\ pc' = "parsed"
    /\ UNCHANGED <<world, mods, plugin_order, additional_archives, file_map, textures,
                   bsa_files, stats, lookup, norm_in, norm_out, dds_in, class_in, class_out, header_counts, calls>>

NextDds == ParseDds

SpecDds == InitDds /\ [][NextDds]_vars

\* C18: the extractor fails exactly in two cases, checked in this order:
\* fewer than 128 bytes available (too small, reported even if the magic is
\* also wrong), then a magic at offset 0 different from the DDS constant;
\* for every buffer of at least 128 bytes with the correct magic it
\* succeeds, whatever the flag word, the codec tag and the extended code.
C18_FailsOnSizeThenMagic ==
    pc = "parsed" =>
        /\ dds_in.len < 128 =>
               /\ ~dds_out.ok
               /\ dds_out.error = "File too small to be valid DDS"
        /\ (dds_in.len >= 128 /\ dds_in.magic # DDS_MAGIC) =>
               /\ ~dds_out.ok
               /\ dds_out.error = "Invalid DDS magic number"
        /\ (dds_in.len >= 128 /\ dds_in.magic = DDS_MAGIC) =>
               /\ dds_out.ok
               /\ dds_out.width = dds_in.width
               /\ dds_out.height = dds_in.height

\* a stream of 64 bytes with a wrong magic has been refused as too small
C18_Witness ==
    /\ pc = "parsed"
    /\ dds_in.len = 64
    /\ dds_in.magic # DDS_MAGIC
    /\ ~dds_out.ok
    /\ dds_out.error = "File too small to be valid DDS"

\* the label of a codec tag other than the extended-format sentinel
TagLabel(fourcc) ==
    CASE fourcc = FOURCC_DXT1 -> "BC1"
      [] fourcc = FOURCC_DXT2 -> "BC2"
      [] fourcc = FOURCC_DXT3 -> "BC2"
      [] fourcc = FOURCC_DXT4 -> "BC3"
      [] fourcc = FOURCC_DXT5 -> "BC3"
      [] fourcc = FOURCC_BC4U -> "BC4"
      [] fourcc = FOURCC_BC4S -> "BC4"
      [] fourcc = FOURCC_ATI1 -> "BC4"
      [] fourcc = FOURCC_BC5U -> "BC5"
      [] fourcc = FOURCC_BC5S -> "BC5"
      [] fourcc = FOURCC_ATI2 -> "BC5"
      [] OTHER -> "FourCC_" \o fourcc_to_string(fourcc)

\* the label of an extended code: an sRGB code has the label of its linear
\* counterpart, which is the code before it
RECURSIVE ExtendedLabel(_)
ExtendedLabel(code) ==
    CASE code \in {72, 75, 78, 99} -> ExtendedLabel(code - 1)
      [] code = 71 -> "BC1"
      [] code = 74 -> "BC2"
      [] code = 77 -> "BC3"
      [] code \in {80, 81} -> "BC4"
      [] code \in {83, 84} -> "BC5"
      [] code \in {95, 96} -> "BC6H"
      [] code = 98 -> "BC7"
      [] OTHER -> "DXGI_" \o ToString(code)

\* the extended code of a stream: the little-endian word at offset 128, a
\* byte the stream does not hold counting as 0
ExtendedCode(stream) == read_u32(header_buffer_tail(stream))

\* C19: the format label is a function of the flag word, the codec tag and
\* the extended code only: the fixed uncompressed label whenever the
\* tagged-codec flag is absent, whatever the tag; with the flag set, the tag
\* table's label, or a diagnostic label embedding the tag when it is
\* unknown; with the flag set and the extended-format sentinel, the extended
\* table's label, where code 98 gives "BC7", each sRGB code gives the label
\* of its linear counterpart, and an unknown code gives a diagnostic label.
C19_FormatLabel ==
    (pc = "parsed" /\ dds_out.ok) =>
        dds_out.format =
            IF (dds_in.pixel_format_flags \div 4) % 2 = 0 THEN "UNCOMPRESSED"
            ELSE IF dds_in.fourcc = FOURCC_DX10 THEN ExtendedLabel(ExtendedCode(dds_in))
            ELSE TagLabel(dds_in.fourcc)

\* a stream with the flag, the sentinel and the sRGB code 99 has been given
\* the label BC7
C19_Witness ==
    /\ pc = "parsed"
    /\ dds_out.ok
    /\ dds_in.pixel_format_flags = 5
    /\ dds_in.fourcc = FOURCC_DX10
    /\ dds_in.tail = <<99, 0, 0, 0>>
    /\ dds_out.format = "BC7"

-----------------------------------------------------------------------------
(* The classifier specification: classify_texture is called on a path.     *)

MarkerChars == {"_", "n", "s", "m", "k", "e", "g", "x"}

RECURSIVE StringsUpTo(_, _)
StringsUpTo(chars, n) ==
    IF n = 0 THEN {<<>>}
    ELSE LET shorter == StringsUpTo(chars, n - 1)
         IN  shorter \cup {<<c>> \o t : c \in chars, t \in {u \in shorter : Len(u) = n - 1}}

\* stems of the longer markers, and stems in upper case
LongStems ==
    {<<"x", "_", "m", "s", "n">>, <<"f", "o", "o", "_", "e", "m">>, <<"f", "o", "o", "_", "s", "k">>,
     <<"x", "_", "e", "n", "v">>, <<"x", "_", "e", "n", "v", "m", "a", "p">>,
     <<"_", "e", "n", "v">>, <<"e", "n", "v", "m", "a", "p">>, <<"x", "_", "m", "a", "p">>,
     <<"x", "_", "M", "S", "N">>, <<"X", "_", "N">>, <<"x", "_", "E", "M">>,
     <<"a", "_", "n", "/", "x", "_", "m", "s", "n">>, <<"a", "_", "m", "s", "n", "/", "x">>}

ClassStems == StringsUpTo(MarkerChars, MaxStem) \cup LongStems

ClassExtensions == {DotDds, <<".", "D", "D", "S">>, <<".", "p", "n", "g">>}

InitClassify ==
    /\ modlist_txt = NoFile
    /\ loadorder_txt = NoFile
    /\ archives_txt = NoFile
    /\ disk = EmptyMap
    /\ bsa_content = EmptyMap
    /\ pc = "start"
    /\ mods = <<>>
    /\ plugin_order = <<>>
    /\ additional_archives = <<>>
    /\ file_map = EmptyMap
    /\ textures = EmptyMap
    /\ bsa_files = <<>>
    /\ stats = NoStats
    /\ lookup = NoLookup
    /\ norm_in = <<>>
    /\ norm_out = <<>>
    /\ dds_in = NotDds(0)
    /\ dds_out = NoHeader
    /\ \E stem \in ClassStems, ext \in ClassExtensions : class_in = stem \o ext
    /\ class_out = <<>>
    /\ header_counts = NoCounts
    /\ NoCalls

\* classify_texture is called on the path
Classify ==
    /\ pc = "start"
    /\ class_out' = classify_texture(class_in)
    /\ pc' = "classified"
    /\ UNCHANGED <<world, mods, plugin_order, additional_archives, file_map, textures,
                   bsa_files, stats, lookup, norm_in, norm_out, dds_in, dds_out, class_in,
                   header_counts, calls>>

NextClassify == Classify

SpecClassify == InitClassify /\ [][NextClassify]_vars

\* the suffix markers and their categories
Markers ==
    {<<<<"_", "n">>, "Normal">>, <<<<"_", "s">>, "Specular">>, <<<<"_", "m">>, "Parallax">>,
     <<<<"_", "s", "k">>, "Subsurface">>, <<<<"_", "m", "s", "n">>, "Multi-layer">>,
     <<<<"_", "e">>, "Emissive">>, <<<<"_", "g">>, "Emissive">>,
     <<<<"_", "e", "m">>, "Emissive Mask">>,
     <<<<"_", "e", "n", "v", "m", "a", "p">>, "Environment">>,
     <<<<"_", "e", "n", "v">>, "Environment">>}

\* the markers a name ends with
MarkersOf(name) == {m \in Markers : ends_with(name, m[1])}

\* the category of the longest marker a name ends with, Diffuse if none
LongestMarkerCategory(name) ==
    IF MarkersOf(name) = {} THEN "Diffuse"
    ELSE (CHOOSE m \in MarkersOf(name) :
              \A o \in MarkersOf(name) : Len(o[1]) <= Len(m[1]))[2]

\* the file name in lower case, its four-character extension stripped
Stem(path) == SubSeq(to_lowercase(path), 1, Len(path) - 4)

HasDdsExtension(path) ==
    Len(path) >= 4 /\ SubSeq(to_lowercase(path), Len(path) - 3, Len(path)) = DotDds

\* C20: classification returns the category of the longest suffix marker
\* that the file name, its extension stripped, ends with: no shorter marker
\* shadows a longer one, so a name ending in _msn is Multi-layer, one ending
\* in _em is Emissive Mask, one ending in _sk is Subsurface, and a name
\* ending in no marker is Diffuse.
C20_LongestMarkerWins ==
    (pc = "classified" /\ HasDdsExtension(class_in)) =>
        /\ class_out = <<LongestMarkerCategory(Stem(class_in))>>
        /\ ends_with(Stem(class_in), <<"_", "m", "s", "n">>) => class_out = <<"Multi-layer">>
        /\ ends_with(Stem(class_in), <<"_", "e", "m">>) => class_out = <<"Emissive Mask">>
        /\ ends_with(Stem(class_in), <<"_", "s", "k">>) => class_out = <<"Subsurface">>
        /\ MarkersOf(Stem(class_in)) = {} => class_out = <<"Diffuse">>

\* x_msn.dds has been classified as Multi-layer
C20_Witness ==
    /\ pc = "classified"
    /\ class_in = <<"x", "_", "m", "s", "n">> \o DotDds
    /\ class_out = <<"Multi-layer">>

-----------------------------------------------------------------------------
(* The header specification: the whole pipeline, from the profile to the   *)
(* end of Phase C, over loose files that parse, that do not parse and that *)
(* are removed, and archives of the base directory and of one mod.         *)

HeaderSlots == {Join(DataDir, BsaP), Join(ModPath(ModB), BsaP)}

\* the loose textures a directory can hold
HeaderLoose(d) ==
    IF d = DataDir THEN TexturesX
    ELSE IF d = ModPath(ModA) THEN TexturesEDecomposed
    ELSE TexturesXWin

InitHeaders ==
    /\ modlist_txt \in {TextFile(l) : l \in CatModlists}
    /\ loadorder_txt = TextFile(<< <<"*">> \o PluginP >>)
    /\ archives_txt = NoFile
    /\ \E holding \in SUBSET CatDirs, slots \in SUBSET HeaderSlots :
           /\ disk = [d \in CatDirs |->
                         (IF d \in holding THEN {HeaderLoose(d)} ELSE {})
                             \cup (IF d = ModPath(ModB) THEN {PluginP} ELSE {})
                             \cup {a[2] : a \in {b \in slots : b[1] = d}}]
           /\ bsa_content \in [slots -> ArchiveContents]
    /\ ProgInit

NextHeaders ==
    \/ Load
    \/ Build
    \/ PhaseA
    \/ ListArchives
    \/ PhaseB
    \/ LooseRemoved
    \/ PhaseC

SpecHeaders == InitHeaders /\ [][NextHeaders]_vars

-----------------------------------------------------------------------------
(* Claims on Phases B and C, under the header specification.               *)

\* the archive entries Phase B meets with the key: one for each position
\* of the list whose archive exists and opens, and each of its texture
\* entries with that key
Encounters(key) ==
    {<<i, f>> \in (1..Len(bsa_files)) \X
                  UNION {bsa_content[b.path].entries : b \in Elements(bsa_files)} :
        /\ FileExists(bsa_files[i].path[1], bsa_files[i].path[2])
        /\ bsa_content[bsa_files[i].path].opens
        /\ f \in bsa_content[bsa_files[i].path].entries
        /\ is_bsa_texture(bsa_key(f.path))
        /\ bsa_key(f.path) = key}

\* the fields of a record that no phase changes after its creation
FixedFields(record) ==
    <<record.internal_path, record.actual_path, record.source, record.file_size,
      record.texture_type>>

\* C21: once a record is in the catalog, Phases B and C leave its key,
\* physical locator, origin label, byte size and classification unchanged:
\* Phase B changes only conflict_count of a record already present, adding
\* exactly 1 per colliding archive entry, and Phase C changes only width,
\* height and format.
C21_FieldsFixedAfterCreation ==
    [][/\ (pc \in {"listed", "listed_stale"} /\ pc' \in {"phaseB", "phaseB_stale"}) =>
              /\ \A key \in DOMAIN textures :
                     /\ key \in DOMAIN textures'
                     /\ textures'[key] =
                            [textures[key] EXCEPT
                                !.conflict_count = @ + Cardinality(Encounters(key))]
              /\ \A key \in DOMAIN textures' \ DOMAIN textures :
                     /\ textures'[key].internal_path = key
                     /\ textures'[key].conflict_count = Cardinality(Encounters(key)) - 1
       /\ pc' = "phaseC" =>
              /\ DOMAIN textures' = DOMAIN textures
              /\ \A key \in DOMAIN textures :
                     /\ FixedFields(textures'[key]) = FixedFields(textures[key])
                     /\ textures'[key].internal_path = key
                     /\ textures'[key].conflict_count = textures[key].conflict_count]_vars

\* at the end of Phase C a loose record that an archive entry collided with
\* in Phase B has its header, and the size and the class Phase A gave it
C21_Witness ==
    /\ pc = "phaseC"
    /\ \E key \in DOMAIN textures :
           /\ textures[key].source = Loose
           /\ textures[key].conflict_count >= 1
           /\ textures[key].width # Absent
           /\ textures[key].file_size = FileSize(textures[key].actual_path)
           /\ textures[key].texture_type = <<"Diffuse">>

\* File::open succeeds on the file of the record
Opens(record) == FileExists(record.actual_path[1], record.actual_path[2])

\* the file of the record opens and the extractor succeeds on its bytes
OpensAndParses(record) ==
    Opens(record) /\ parse_dds_header(FileBytes(record.actual_path)).ok

\* the keys of the records without metadata
LackingMetadata(catalog) == {key \in DOMAIN catalog : catalog[key].width = Absent}

\* C22: Phase C makes one extraction attempt for every catalog entry that
\* still lacks metadata after Phase B, whatever its origin; an entry whose
\* file opens and parses ends with width, height and format set, and a
\* missing file or a failed parse leaves that entry's metadata absent, is
\* counted, and never makes the phase return an error.
C22_OneAttemptPerEntryLackingMetadata ==
    [][pc' = "phaseC" =>
           /\ header_counts'.parsed + header_counts'.failed =
                  Cardinality(LackingMetadata(textures))
           /\ header_counts'.failed =
                  Cardinality({key \in LackingMetadata(textures) :
                                  ~OpensAndParses(textures[key])})
           /\ \A key \in LackingMetadata(textures) :
                  IF OpensAndParses(textures[key])
                  THEN /\ textures'[key].width # Absent
                       /\ textures'[key].height # Absent
                       /\ textures'[key].format # Absent
                  ELSE /\ textures'[key].width = Absent
                       /\ textures'[key].height = Absent
                       /\ textures'[key].format = Absent]_vars

\* C27: the conflict_count of a record is the number of lower-priority mods
\* that also provide that texture: a loose record won by an overlay counts
\* every lower-ranked enabled overlay, and the base root, that provides the
\* same key, not only archives.
C27_LooseConflictsCounted ==
    pc = "phaseA" =>
        \A key \in DOMAIN textures :
            textures[key].conflict_count = Cardinality(ExpectedLayers(key)) - 1

\* the keys of the records Phase B inserted
ArchiveRecords == {key \in DOMAIN textures : textures[key].source # Loose}

\* the entry a record of Phase B was made from
EntryOf(key) ==
    CHOOSE f \in bsa_content[textures[key].actual_path].entries : bsa_key(f.path) = key

\* the bytes the fallback chain hands to the extractor for an entry, when a
\* codec reads it
ChainBytes(f) ==
    IF f.is_decompressed THEN f.raw
    ELSE IF f.deflate_ok THEN f.inflated
    ELSE f.lz4_inflated

\* the outcome of the header extraction for an entry
Outcome(f) ==
    IF ~f.is_decompressed /\ ~f.deflate_ok /\ ~f.lz4_ok THEN "decompress_failed"
    ELSE IF ChainBytes(f).len < 128 THEN "too_small"
    ELSE IF ChainBytes(f).magic # DDS_MAGIC THEN "parse_failed"
    ELSE "headers_parsed"

OutcomeCount(outcome) ==
    Cardinality({key \in ArchiveRecords : Outcome(EntryOf(key)) = outcome})

\* C28: in Phase B every newly inserted archive record is accounted for
\* exactly once: it either has width, height and format all set and adds 1
\* to the parsed counter, or has all three absent and adds 1 to exactly one
\* of the too-small, format-error and decompress-failed counters, so at the
\* end inserted = parsed + too-small + format-error + decompress-failed.
C28_EveryInsertedRecordCountedOnce ==
    pc \in {"phaseB", "phaseB_stale"} =>
        /\ stats.texture_count = Cardinality(ArchiveRecords)
        /\ stats.texture_count =
               stats.headers_parsed + stats.too_small + stats.parse_failed
                   + stats.decompress_failed
        /\ stats.headers_parsed = OutcomeCount("headers_parsed")
        /\ stats.too_small = OutcomeCount("too_small")
        /\ stats.parse_failed = OutcomeCount("parse_failed")
        /\ stats.decompress_failed = OutcomeCount("decompress_failed")
        /\ \A key \in ArchiveRecords :
               IF Outcome(EntryOf(key)) = "headers_parsed"
               THEN /\ textures[key].width # Absent
                    /\ textures[key].height # Absent
                    /\ textures[key].format # Absent
               ELSE /\ textures[key].width = Absent
                    /\ textures[key].height = Absent
                    /\ textures[key].format = Absent

\* Phase B has inserted records of all four outcomes
C28_Witness ==
    /\ pc = "phaseB"
    /\ stats.headers_parsed >= 1
    /\ stats.too_small >= 1
    /\ stats.parse_failed >= 1
    /\ stats.decompress_failed >= 1

-----------------------------------------------------------------------------
(* Exclusion list: ExclusionList::matches_wildcard.                        *)

\* pattern.split('*'): the parts between the asterisks, empty parts kept
RECURSIVE split_at_asterisks(_, _)
split_at_asterisks(part, rest) ==
    IF rest = <<>> THEN <<part>>
    ELSE IF Head(rest) = "*" THEN <<part>> \o split_at_asterisks(<<>>, Tail(rest))
    ELSE split_at_asterisks(Append(part, Head(rest)), Tail(rest))

split(pattern) == split_at_asterisks(<<>>, pattern)

\* str::find: the offset of the first occurrence of part in s, -1 for None
find(s, part) ==
    LET offsets == {o \in 0..(Len(s) - Len(part)) : SubSeq(s, o + 1, o + Len(part)) = part}
    IN  IF offsets = {} THEN -1
        ELSE CHOOSE o \in offsets : \A q \in offsets : o <= q

\* the loop of matches_wildcard from part i on, parts[1] being the part of
\* index 0 of the code
RECURSIVE match_parts(_, _, _, _, _)
match_parts(text, pattern, parts, i, text_pos) ==
    IF i > Len(parts) THEN TRUE
    ELSE IF parts[i] = <<>>
    THEN match_parts(text, pattern, parts, i + 1, text_pos)
    ELSE IF i = 1
    THEN IF ~starts_with(text, parts[i]) THEN FALSE
         ELSE match_parts(text, pattern, parts, i + 1, Len(parts[i]))
    ELSE IF i = Len(parts) /\ ~ends_with(pattern, <<"*">>)
    THEN ends_with(text, parts[i])
    ELSE LET pos == find(SubSeq(text, text_pos + 1, Len(text)), parts[i])
         IN  IF pos = -1 THEN FALSE
             ELSE match_parts(text, pattern, parts, i + 1,
                              text_pos + pos + Len(parts[i]))

\* ExclusionList::matches_wildcard
matches_wildcard(text, pattern) ==
    LET parts == split(pattern)
    IN  IF parts = <<>> THEN text = <<>>
        ELSE match_parts(text, pattern, parts, 1, 0)

\* The wildcard specification: matches_wildcard is called on every text and
\* every pattern with an asterisk of at most MaxGlob characters.

GlobTexts == StringsUpTo({"a", "b"}, MaxGlob)

GlobPatterns ==
    {pattern \in StringsUpTo({"a", "b", "*"}, MaxGlob) :
        \E i \in 1..Len(pattern) : pattern[i] = "*"}

InitWildcard ==
    /\ modlist_txt = NoFile
    /\ loadorder_txt = NoFile
    /\ archives_txt = NoFile
    /\ disk = EmptyMap
    /\ bsa_content = EmptyMap
    /\ pc = "start"
    /\ mods = <<>>
    /\ plugin_order = <<>>
    /\ additional_archives = <<>>
    /\ file_map = EmptyMap
    /\ textures = EmptyMap
    /\ bsa_files = <<>>
    /\ stats = NoStats
    /\ lookup = NoLookup
    /\ norm_in = <<>>
    /\ norm_out = <<>>
    /\ dds_in = NotDds(0)
    /\ dds_out = NoHeader
    /\ class_in = <<>>
    /\ class_out = <<>>
    /\ header_counts = NoCounts
    /\ \E text \in GlobTexts, pattern \in GlobPatterns :
           glob_in = [text |-> text, pattern |-> pattern]
    /\ glob_out = FALSE
    /\ preset_in = [preset |-> "", texture_type |-> "", current_width |-> 0,
                    current_height |-> 0]
    /\ preset_out = <<>>

\* matches_wildcard is called on the text and the pattern
MatchWildcard ==
    /\ pc = "start"
    /\ glob_out' = matches_wildcard(glob_in.text, glob_in.pattern)
    /\ pc' = "matched"
    /\ UNCHANGED <<world, mods, plugin_order, additional_archives, file_map, textures,
                   bsa_files, stats, lookup, norm_in, norm_out, dds_in, dds_out,
                   class_in, class_out, header_counts, glob_in, preset_in, preset_out>>

NextWildcard == MatchWildcard

SpecWildcard == InitWildcard /\ [][NextWildcard]_vars

\* text matches pattern as a simple glob: * matches any run of characters,
\* the empty run included, and every other character matches itself
RECURSIVE Glob(_, _)
Glob(text, pattern) ==
    IF pattern = <<>> THEN text = <<>>
    ELSE IF Head(pattern) = "*"
    THEN Glob(text, Tail(pattern)) \/ (text # <<>> /\ Glob(Tail(text), pattern))
    ELSE text # <<>> /\ Head(text) = Head(pattern) /\ Glob(Tail(text), Tail(pattern))

\* C25: matches_wildcard(text, pattern) is true exactly when text matches
\* pattern as a simple glob in which * matches any run of characters,
\* including none, and every other character matches itself, for every text
\* and every pattern containing at least one *.
C25_WildcardIsGlob ==
    pc = "matched" => (glob_out <=> Glob(glob_in.text, glob_in.pattern))

-----------------------------------------------------------------------------
(* Optimization presets: OptimizationPreset::get_target_resolution.        *)

\* OptimizationPreset::HQ, QUALITY, OPTIMUM, PERFORMANCE and VANILLA
Presets ==
    { [name |-> "High Quality", diffuse_max |-> 2048, normal_max |-> 2048,
       parallax_max |-> 1024, material_max |-> 1024],
      [name |-> "Quality", diffuse_max |-> 2048, normal_max |-> 1024,
       parallax_max |-> 1024, material_max |-> 1024],
      [name |-> "Optimum", diffuse_max |-> 2048, normal_max |-> 1024,
       parallax_max |-> 512, material_max |-> 512],
      [name |-> "Performance", diffuse_max |-> 2048, normal_max |-> 512,
       parallax_max |-> 512, material_max |-> 512],
      [name |-> "Vanilla", diffuse_max |-> 512, normal_max |-> 512,
       parallax_max |-> 512, material_max |-> 512] }

PresetNamed(name) == CHOOSE preset \in Presets : preset.name = name

MaterialTypes ==
    {"Specular", "Emissive", "Emissive Mask", "Subsurface", "Environment", "Multi-layer"}

\* the match on texture_type: the limit of the type, 0 for an unknown type
max_res_of(preset, texture_type) ==
    CASE texture_type = "Diffuse" -> preset.diffuse_max
      [] texture_type = "Normal" -> preset.normal_max
      [] texture_type = "Parallax" -> preset.parallax_max
      [] texture_type \in MaterialTypes -> preset.material_max
      [] OTHER -> 0

\* while power < n { power *= 2 }
RECURSIVE power_from(_, _)
power_from(power, n) == IF power < n THEN power_from(power * 2, n) ELSE power

\* OptimizationPreset::round_to_power_of_2
round_to_power_of_2(n) ==
    IF n = 0 THEN 1
    ELSE LET power == power_from(1, n)
         IN  IF power - n < n - (power \div 2) THEN power ELSE power \div 2

\* (max_res as f32 * (small as f32 / large as f32)).round() as u32, for
\* small < large: the quotient rounded to the nearest integer, halves up.
\* max_res is a power of 2 of at most 2048 and large is at most 4096, so the
\* error of the f32 quotient is below the distance of the exact value to the
\* nearest half, and a value that is a half is computed exactly.
scaled(max_res, small, large) == (2 * max_res * small + large) \div (2 * large)

\* a target whose sides are both max_res, whatever the aspect ratio
target_square(max_res, current_width, current_height) ==
    IF current_width > max_res \/ current_height > max_res
    THEN << <<max_res, max_res>> >>
    ELSE <<>>

\* the downscaling branch of get_target_resolution
target(max_res, current_width, current_height) ==
    LET current_max == IF current_width > current_height THEN current_width
                       ELSE current_height
    IN  IF current_max > max_res
        THEN IF current_width > current_height
             THEN << <<max_res,
                       round_to_power_of_2(scaled(max_res, current_height, current_width))>> >>
             ELSE IF current_height > current_width
             THEN << <<round_to_power_of_2(scaled(max_res, current_width, current_height)),
                       max_res>> >>
             ELSE << <<max_res, max_res>> >>
        ELSE <<>>

KnownTypes == {"Diffuse", "Normal", "Parallax"} \cup MaterialTypes

\* OptimizationPreset::get_target_resolution: <<>> is None, <<t>> is Some(t)
get_target_resolution(preset, texture_type, current_width, current_height) ==
    IF texture_type \notin KnownTypes THEN <<>>
    ELSE target(max_res_of(preset, texture_type), current_width, current_height)

\* The preset specification: get_target_resolution is called with every
\* preset, every texture type and every pair of the dimensions below.

PresetDims == {0, 1, 3, 7, 256, 512, 1000, 1024, 2048, 2049, 3000, 4096}

PresetTypes == KnownTypes \cup {"Unknown", ""}

InitPresets ==
    /\ modlist_txt = NoFile
    /\ loadorder_txt = NoFile
    /\ archives_txt = NoFile
    /\ disk = EmptyMap
    /\ bsa_content = EmptyMap
    /\ pc = "start"
    /\ mods = <<>>
    /\ plugin_order = <<>>
    /\ additional_archives = <<>>
    /\ file_map = EmptyMap
    /\ textures = EmptyMap
    /\ bsa_files = <<>>
    /\ stats = NoStats
    /\ lookup = NoLookup
    /\ norm_in = <<>>
    /\ norm_out = <<>>
    /\ dds_in = NotDds(0)
    /\ dds_out = NoHeader
    /\ class_in = <<>>
    /\ class_out = <<>>
    /\ header_counts = NoCounts
    /\ glob_in = [text |-> <<>>, pattern |-> <<>>]
    /\ glob_out = FALSE
    /\ \E preset \in Presets, texture_type \in PresetTypes :
       \E current_width \in PresetDims, current_height \in PresetDims :
           preset_in = [preset |-> preset.name, texture_type |-> texture_type,
                        current_width |-> current_width,
                        current_height |-> current_height]
    /\ preset_out = <<>>

\* get_target_resolution is called
GetTargetResolution ==
    /\ pc = "start"
    /\ preset_out' = get_target_resolution(PresetNamed(preset_in.preset),
                                           preset_in.texture_type,
                                           preset_in.current_width,
                                           preset_in.current_height)
    /\ pc' = "resolved"
    /\ UNCHANGED <<world, mods, plugin_order, additional_archives, file_map, textures,
                   bsa_files, stats, lookup, norm_in, norm_out, dds_in, dds_out,
                   class_in, class_out, header_counts, glob_in, glob_out, preset_in>>

NextPresets == GetTargetResolution

SpecPresets == InitPresets /\ [][NextPresets]_vars

\* the limit the preset table gives a texture type: diffuse, normal,
\* parallax, and one limit for the six material types
LimitOf(preset_name, texture_type) ==
    LET row == CASE preset_name = "High Quality" -> <<2048, 2048, 1024, 1024>>
                 [] preset_name = "Quality" -> <<2048, 1024, 1024, 1024>>
                 [] preset_name = "Optimum" -> <<2048, 1024, 512, 512>>
                 [] preset_name = "Performance" -> <<2048, 512, 512, 512>>
                 [] preset_name = "Vanilla" -> <<512, 512, 512, 512>>
    IN  CASE texture_type = "Diffuse" -> row[1]
          [] texture_type = "Normal" -> row[2]
          [] texture_type = "Parallax" -> row[3]
          [] OTHER -> row[4]

Larger(a, b) == IF a > b THEN a ELSE b

C29_TargetNeverLarger ==
    (pc = "resolved" /\ preset_out # <<>>) =>
        /\ preset_out[1][1] <= preset_in.current_width
        /\ preset_out[1][2] <= preset_in.current_height

====
